---- MODULE Spec2Model ----
(***************************************************************************)
(* A model of chanpy's channel (src/chanpy/channel.py): the channel state  *)
(* machine (buffer, takes, puts, close lifecycle), the handlers it         *)
(* commits, and the alt driver that presents sibling handlers sharing one  *)
(* flag to several channels.                                               *)
(*                                                                         *)
(* Granularity: every public operation runs "with self._lock", so one      *)
(* call of _put, _get or close is one atomic step of its channel.  Within  *)
(* a step every "with handler:" block (check is_active, then commit) is    *)
(* atomic with respect to the handler's flag.  Other threads act between   *)
(* the steps: they present further operations, cancel parked operations,   *)
(* or (alt) present the next sibling handler to another channel.           *)
(*                                                                         *)
(* Python values are integers: None is NoneV, True is TrueV, False is      *)
(* FalseV, the values put on channels are positive.  A call's return      *)
(* value is a record [tag, val]: RNone is Python's None, RTuple(v) the     *)
(* one-element tuple (v,), RBool(b) a bare boolean.                        *)
(***************************************************************************)
EXTENDS Integers, Sequences, FiniteSets, TLC

\* ---------------------------------------------------------------- bounds
MaxHandlers == 4      \* handlers (operations presented) in one run
MaxCap == 2           \* largest buffer capacity tried
MaxDrain == 6         \* operations in a run that fills and drains a channel
QExtra == 3           \* operations presented to a channel whose queue is near full

\* ------------------------------------------------------- Python's values
NoneV == 0
TrueV == -1
FalseV == -2

MAX_QUEUE_SIZE == 1024

HandlerIds == 1..MaxHandlers
\* Two concurrent alts; each has one flag that its handlers share.
AltIds == {1, 2}
AltFlag(a) == MaxHandlers + a
FlagIds == HandlerIds \cup {AltFlag(a) : a \in AltIds}

RNone == [tag |-> "None", val |-> NoneV]
RTuple(v) == [tag |-> "tuple", val |-> v]
RBool(b) == [tag |-> "bool", val |-> b]
\* the call has not been made (or raised): nothing was returned
RUnset == [tag |-> "unset", val |-> NoneV]

VARIABLES
  chans,     \* channel id -> Chan object (see NewChan)
  hd,        \* handler id -> the handler object: its operation, flag, is_blockable
  act,       \* flag id -> is_active
  cmt,       \* handler id -> number of calls of commit() on it
  dlv,       \* handler id -> the values its delivery callback was called with
  ret,       \* handler id -> what the _put/_get call that presented it returned
  rcv,       \* channel id -> the values obtained by gets, in the order obtained
  nextH,     \* the next unused handler id
  alts,      \* alt id -> the state of that alt call (see NewAlt)
  last,      \* the most recent operation, with the state it started from
  thr,       \* thread id -> the call the thread is in, at lock granularity
  ev         \* what the latest lock-level step read and which callbacks it made

\* The variables of the lock-level view (see "lock level" below); the atomic
\* operations leave them alone.
lkvars == <<thr, ev>>

vars == <<chans, hd, act, cmt, dlv, ret, rcv, nextH, alts, last, thr, ev>>

\* ------------------------------------------------------------- buffers
\* kind "none" is buf=None (an unbuffered channel).
BufKinds == {"fixed", "dropping", "sliding", "promise"}

buf_len(ch) == Len(ch.buf)

\* A variant of buf_is_full in which every kind of buffer can be full.
buf_is_full_any_kind(ch) == Len(ch.buf) >= ch.cap

buf_is_full(ch) == ch.kind = "fixed" /\ Len(ch.buf) >= ch.cap

buf_put(ch, v) ==
  CASE ch.kind = "fixed" -> [ch EXCEPT !.buf = Append(@, v)]
    [] ch.kind = "dropping" ->
         IF Len(ch.buf) < ch.cap THEN [ch EXCEPT !.buf = Append(@, v)] ELSE ch
    [] ch.kind = "sliding" ->
         IF Len(ch.buf) >= ch.cap
         THEN [ch EXCEPT !.buf = Append(Tail(@), v)]
         ELSE [ch EXCEPT !.buf = Append(@, v)]
    [] ch.kind = "promise" ->
         IF Len(ch.buf) = 0 THEN [ch EXCEPT !.buf = <<v>>] ELSE ch
    [] OTHER -> ch

\* buf.get(): the value, and the buffer afterwards.
buf_get_val(ch) == Head(ch.buf)

buf_get_rest(ch) ==
  IF ch.kind = "promise" THEN ch ELSE [ch EXCEPT !.buf = Tail(@)]

\* ------------------------------------------------------------- handlers
NoHandler == [op |-> "none", ch |-> 0, val |-> NoneV, flag |-> 0,
              blockable |-> FALSE, alt |-> 0]

\* The state one channel operation works on: the channel and the handlers.
\* exc is the exception travelling up out of the call ("" when none).
World(c) == [ch |-> chans[c], c |-> c, hd |-> hd, act |-> act, cmt |-> cmt,
             dlv |-> dlv, rcv |-> rcv[c], exc |-> ""]

\* A variant of is_active that ignores the flag: a handler counts as active
\* until it is committed itself.
is_active_ignoring_flag(w, h) == w.cmt[h] = 0

is_active(w, h) == w.act[w.hd[h].flag]

is_blockable(w, h) == w.hd[h].blockable

\* handler.commit(): the flag goes inactive; the caller gets the callback.
commit(w, h) == [w EXCEPT !.act[w.hd[h].flag] = FALSE, !.cmt[h] = @ + 1]

\* The delivery callback of h called with v.
deliver(w, h, v) ==
  [w EXCEPT !.dlv[h] = Append(@, v),
            !.rcv = IF w.hd[h].op = "get" /\ v # NoneV THEN Append(@, v) ELSE @]

\* ------------------------------------------------------------- channel
\* xform is "identity" (xform=None), "partition_all" (xf.partition_all(PartN)),
\* "take" (xf.take(TakeN)), or xf.map(f) with an f that fails on some inputs:
\* "map_div" (f raises) and "map_none" (f returns None); xbuf is the closure
\* variable `buffer` of partition_all, remaining that of take; completions
\* counts the calls of the completion arity.  ex_handler is "nop"
\* (ex_handler=None: nop_ex_handler, which re-raises), "value" (returns a
\* recovery value), "null" (returns None) or "raise" (raises itself).
TakeN == 2

NewChan(kind, cap, xform) ==
  [kind |-> kind, cap |-> cap, buf |-> <<>>, takes |-> <<>>, puts |-> <<>>,
   is_closed |-> FALSE, xform_is_completed |-> FALSE, xform |-> xform,
   xbuf |-> <<>>, is_initial |-> TRUE,
   remaining |-> IF xform \in {"take", "cat_take", "interpose_take"}
                 THEN TakeN ELSE 0,
   completions |-> 0, ex_handler |-> "nop"]

\* Chan(buf, xform, ex_handler): "None" for an argument left out.  Every
\* combination gives a channel.
Chan_init(kind, cap, xform, ex_handler) ==
  [NewChan(kind, cap, IF xform = "None" THEN "identity" ELSE xform)
     EXCEPT !.ex_handler = IF ex_handler = "None" THEN "nop" ELSE ex_handler]

has_buf(ch) == ch.kind # "none"

\* The channel's own reducing function, rf = multi_arity(.., .., step):
\* step puts val on the buffer and returns None, which is no Reduced.
rf_step(ch, val) == buf_put(ch, val)

\* tuple(buffer) as a value: the digits of its elements (each 1..9) followed
\* by a 0, so that tuples differ from one another and from plain values.
RECURSIVE Digits(_)
Digits(s) == IF s = <<>> THEN 0 ELSE 10 * Digits(SubSeq(s, 1, Len(s) - 1)) + s[Len(s)]
TupleOf(s) == 10 * Digits(s)

\* partition_all(n) with step=None, so step = n and remaining_drops stays 0.
PartN == 2
Drop(s, k) == SubSeq(s, k + 1, Len(s))

\* partition_all's step_f.
partition_all_step(ch, val) ==
  LET b == Append(ch.xbuf, val)
  IN IF Len(b) < PartN
     THEN [ch EXCEPT !.xbuf = b]
     ELSE rf_step([ch EXCEPT !.xbuf = Drop(b, PartN)], TupleOf(b))

\* A variant of partition_all's complete that drops what it retained.
partition_all_discard(ch) == [ch EXCEPT !.xbuf = <<>>]

\* partition_all's complete: "while len(buffer) > 0", then rf(result).
RECURSIVE partition_all_complete(_)
partition_all_complete(ch) ==
  IF Len(ch.xbuf) > 0
  THEN partition_all_complete(
         rf_step([ch EXCEPT !.xbuf = Drop(@, PartN)], TupleOf(ch.xbuf)))
  ELSE ch

\* take's step: the value goes on while remaining > 0; the result is a
\* Reduced once remaining has dropped to 0.
take_step(ch, val) ==
  [(IF ch.remaining > 0 THEN rf_step(ch, val) ELSE ch)
     EXCEPT !.remaining = @ - 1]

\* A variant of take_is_reduced that is one value late ("< 0" for "<= 0").
take_is_reduced_late(ch) == ch.remaining - 1 < 0

take_is_reduced(ch) == ch.remaining - 1 <= 0

\* The function f of xf.map(f): it fails on even inputs (raises, or returns
\* None) and maps the others to another value.
MapFails(val) == val % 2 = 0
MapF(val) == val + 10

\* What the ex_handler that returns a value returns.
RecoveryVal == 99

\* A variant of ex_handler_xform that drops the handler's return value.
ex_handler_xform_discarding(w, e) ==
  CASE w.ch.ex_handler = "nop" -> [w EXCEPT !.exc = e]
    [] w.ch.ex_handler = "raise" -> [w EXCEPT !.exc = "HandlerError"]
    [] w.ch.ex_handler = "value" -> w
    [] w.ch.ex_handler = "null" -> w

\* ex_handler_xform's "except Exception as e" branch for the exception e.
ex_handler_xform(w, e) ==
  CASE w.ch.ex_handler = "nop" -> [w EXCEPT !.exc = e]
    [] w.ch.ex_handler = "raise" -> [w EXCEPT !.exc = "HandlerError"]
    [] w.ch.ex_handler = "value" -> [w EXCEPT !.ch = buf_put(@, RecoveryVal)]
    [] w.ch.ex_handler = "null" -> w

\* map's step with the channel's step as rf: f(val) raises, or is None and
\* the channel's step raises TypeError, or goes on the buffer.
map_step(w, val) ==
  IF MapFails(val)
  THEN ex_handler_xform(w, IF w.ch.xform = "map_div" THEN "ZeroDivisionError"
                           ELSE "TypeError")
  ELSE [w EXCEPT !.ch = rf_step(w.ch, MapF(val))]

\* filter(pred)'s step with the channel's step as rf; pred is the test's
\* "x % 2 == 0".
FilterPred(val) == val % 2 = 0
filter_step(w, val) ==
  IF FilterPred(val) THEN [w EXCEPT !.ch = rf_step(w.ch, val)] ELSE w

\* The elements of a tuple value, in order.
RECURSIVE Elements(_)
Elements(n) == IF n = 0 THEN <<>> ELSE Append(Elements(n \div 10), n % 10)

\* cat's step, ireduce(rf, result, val) with the channel's step as rf: each
\* element of the collection val is put on the buffer; on an element that is
\* None step raises, the rest of val is not visited and the exception goes to
\* the ex_handler.
RECURSIVE cat_ireduce(_, _)
cat_ireduce(w, xs) ==
  IF xs = <<>> THEN w
  ELSE IF Head(xs) = NoneV THEN ex_handler_xform(w, "TypeError")
  ELSE cat_ireduce([w EXCEPT !.ch = rf_step(w.ch, Head(xs))], Tail(xs))

cat_step(w, val) == cat_ireduce(w, Elements(val \div 10))

\* unreduced(x) for a result x: what it wraps, never a Reduced.
unreduced(r) == [r EXCEPT !.reduced = FALSE]

\* _ireduce(rf, result, coll) with take's step as rf, the xform being
\* comp(cat, take(TakeN)): each element goes through take; when take returns
\* a Reduced the rest of coll is not visited and the result is unwrapped.
RECURSIVE take_ireduce(_, _)
take_ireduce(w, xs) ==
  IF xs = <<>> THEN [w |-> w, reduced |-> FALSE]
  ELSE IF Head(xs) = NoneV /\ w.ch.remaining > 0
  THEN [w |-> ex_handler_xform(w, "TypeError"), reduced |-> FALSE]
  ELSE IF take_is_reduced(w.ch)
  THEN unreduced([w |-> [w EXCEPT !.ch = take_step(w.ch, Head(xs))],
                  reduced |-> TRUE])
  ELSE take_ireduce([w EXCEPT !.ch = take_step(w.ch, Head(xs))], Tail(xs))

\* cat's step with take's step as rf.
cat_take_step(w, val) == take_ireduce(w, Elements(val \div 10))

\* take's step as the rf of an outer transducer: the world afterwards and
\* whether the result is a Reduced.
take_rf(w, val) ==
  [w |-> [w EXCEPT !.ch = take_step(w.ch, val)], reduced |-> take_is_reduced(w.ch)]

\* interpose(SepVal)'s step with take's step as rf, the xform being
\* comp(interpose(SepVal), take(TakeN)); is_initial is its closure variable.
\* After the first value it calls rf with the separator and then calls rf
\* again with that call's result, whatever it is.
SepVal == 97
interpose_step(w, val) ==
  IF w.ch.is_initial
  THEN take_rf([w EXCEPT !.ch.is_initial = FALSE], val)
  ELSE LET sep_result == take_rf(w, SepVal)
       IN take_rf(sep_result.w, val)

\* self._buf_rf(None, val): the step arity of the wrapped transducer.
\* Gives the world afterwards and whether the result is a Reduced.
buf_rf_step(w, val) ==
  CASE w.ch.xform = "identity" ->
         [w |-> [w EXCEPT !.ch = rf_step(w.ch, val)], reduced |-> FALSE]
    [] w.ch.xform = "partition_all" ->
         [w |-> [w EXCEPT !.ch = partition_all_step(w.ch, val)],
          reduced |-> FALSE]
    [] w.ch.xform = "take" ->
         [w |-> [w EXCEPT !.ch = take_step(w.ch, val)],
          reduced |-> take_is_reduced(w.ch)]
    [] w.ch.xform \in {"map_div", "map_none"} ->
         [w |-> map_step(w, val), reduced |-> FALSE]
    [] w.ch.xform = "filter" -> [w |-> filter_step(w, val), reduced |-> FALSE]
    [] w.ch.xform = "cat" -> [w |-> cat_step(w, val), reduced |-> FALSE]
    [] w.ch.xform = "cat_take" -> cat_take_step(w, val)
    [] w.ch.xform = "interpose_take" -> interpose_step(w, val)

\* self._buf_rf(None): the completion arity.
buf_rf_complete(w) ==
  CASE w.ch.xform = "identity" -> [w EXCEPT !.ch.completions = @ + 1]
    [] w.ch.xform = "partition_all" ->
         [w EXCEPT !.ch = [partition_all_complete(w.ch)
                             EXCEPT !.completions = @ + 1]]
    [] w.ch.xform \in {"take", "map_div", "map_none", "filter", "cat",
                       "cat_take", "interpose_take"} ->
         [w EXCEPT !.ch.completions = @ + 1]

_cleanup(w) ==
  LET ActiveTaker(h) == is_active(w, h)
      ActivePutter(p) == is_active(w, p[1])
  IN [w EXCEPT !.ch.takes = SelectSeq(@, ActiveTaker),
               !.ch.puts = SelectSeq(@, ActivePutter)]

_fail_op(w, h, val) ==
  IF is_active(w, h)
  THEN [w |-> commit(w, h), ret |-> RTuple(val)]
  ELSE [w |-> w, ret |-> RNone]

RECURSIVE _distribute_buf_vals(_)
_distribute_buf_vals(w) ==
  IF Len(w.ch.takes) > 0 /\ buf_len(w.ch) > 0
  THEN LET taker == Head(w.ch.takes)
           w1 == [w EXCEPT !.ch.takes = Tail(@)]
       IN IF is_active(w1, taker)
          THEN _distribute_buf_vals(
                 deliver(commit([w1 EXCEPT !.ch = buf_get_rest(@)], taker),
                         taker, buf_get_val(w1.ch)))
          ELSE _distribute_buf_vals(w1)
  ELSE w

\* A variant of _complete_xform_if_ready without "not self._xform_is_completed".
_complete_xform_repeatedly(w) ==
  IF w.ch.is_closed /\ Len(w.ch.puts) = 0
  THEN buf_rf_complete([w EXCEPT !.ch.xform_is_completed = TRUE])
  ELSE w

\* A variant of _complete_xform_if_ready without "len(self._puts) == 0".
_complete_xform_ignoring_puts(w) ==
  IF w.ch.is_closed /\ ~w.ch.xform_is_completed
  THEN buf_rf_complete([w EXCEPT !.ch.xform_is_completed = TRUE])
  ELSE w

_complete_xform_if_ready(w) ==
  IF w.ch.is_closed /\ Len(w.ch.puts) = 0 /\ ~w.ch.xform_is_completed
  THEN buf_rf_complete([w EXCEPT !.ch.xform_is_completed = TRUE])
  ELSE w

\* "for taker in self._takes": commit each active one with None.
RECURSIVE close_takers(_, _)
close_takers(w, ts) ==
  IF ts = <<>> THEN w
  ELSE LET taker == Head(ts)
       IN IF is_active(w, taker)
          THEN close_takers(deliver(commit(w, taker), taker, NoneV), Tail(ts))
          ELSE close_takers(w, Tail(ts))

\* A variant of _close that does not hand the buffer's values to the parked
\* takers before it commits them with None.
_close_no_distribute(w) ==
  LET w1 == [w EXCEPT !.ch.is_closed = TRUE]
      w2 == IF has_buf(w1.ch) THEN _complete_xform_if_ready(w1) ELSE w1
      w3 == close_takers(w2, w2.ch.takes)
  IN [w3 EXCEPT !.ch.takes = <<>>]

\* "for putter, _ in self._puts": commit each active one with False.
RECURSIVE reject_putters(_, _)
reject_putters(w, ps) ==
  IF ps = <<>> THEN w
  ELSE LET putter == Head(ps)[1]
       IN IF is_active(w, putter)
          THEN reject_putters(deliver(commit(w, putter), putter, FalseV), Tail(ps))
          ELSE reject_putters(w, Tail(ps))

\* A variant of _close that rejects the parked putters as well.
_close_rejecting_putters(w) ==
  LET w1 == [w EXCEPT !.ch.is_closed = TRUE]
      w2 == IF has_buf(w1.ch)
            THEN _distribute_buf_vals(_complete_xform_if_ready(w1))
            ELSE w1
      w3 == close_takers(w2, w2.ch.takes)
      w4 == reject_putters(w3, w3.ch.puts)
  IN [w4 EXCEPT !.ch.takes = <<>>, !.ch.puts = <<>>]

_close(w) ==
  LET w1 == [w EXCEPT !.ch.is_closed = TRUE]
      w2 == IF has_buf(w1.ch)
            THEN _distribute_buf_vals(_complete_xform_if_ready(w1))
            ELSE w1
      w3 == close_takers(w2, w2.ch.takes)
  IN [w3 EXCEPT !.ch.takes = <<>>]

\* A variant of _buf_put that closes on a Reduced but leaves the parked
\* putters alone.
_buf_put_keeping_putters(w, val) ==
  LET r == buf_rf_step(w, val)
  IN IF r.w.exc # "" THEN r.w
     ELSE IF r.reduced THEN _close(r.w) ELSE r.w

_buf_put(w, val) ==
  LET r == buf_rf_step(w, val)
  IN IF r.w.exc # "" THEN r.w
     ELSE IF r.reduced
     THEN LET w1 == reject_putters(r.w, r.w.ch.puts)
          IN _close([w1 EXCEPT !.ch.puts = <<>>])
     ELSE r.w

\* The result of a call: the world afterwards, the value returned, and the
\* exception raised ("" when none).
Result(w, r) == [w |-> w, ret |-> r, exc |-> ""]
Raise(w, e) == [w |-> w, ret |-> RUnset, exc |-> e]

\* A variant of put_scan_takes that leaves takes alone when the put's own
\* handler is inactive.
RECURSIVE put_scan_takes_keeping(_, _, _)
put_scan_takes_keeping(w, h, val) ==
  IF Len(w.ch.takes) > 0 /\ is_active(w, h)
  THEN LET taker == Head(w.ch.takes)
           w1 == [w EXCEPT !.ch.takes = Tail(@)]
       IN IF is_active(w1, taker)
          THEN [w |-> deliver(commit(commit(w1, h), taker), taker, val),
                done |-> TRUE]
          ELSE put_scan_takes_keeping(w1, h, val)
  ELSE [w |-> w, done |-> FALSE]

\* A variant of put_scan_takes that commits the taker without calling the
\* callback it returns.
RECURSIVE put_scan_takes_silent(_, _, _)
put_scan_takes_silent(w, h, val) ==
  IF Len(w.ch.takes) > 0
  THEN LET taker == Head(w.ch.takes)
           w1 == [w EXCEPT !.ch.takes = Tail(@)]
       IN IF is_active(w1, h) /\ is_active(w1, taker)
          THEN [w |-> commit(commit(w1, h), taker), done |-> TRUE]
          ELSE put_scan_takes_silent(w1, h, val)
  ELSE [w |-> w, done |-> FALSE]

\* _put's "while len(self._takes) > 0": the hand-off to a parked taker.
\* done is TRUE when the loop returned (True,) out of _put.
RECURSIVE put_scan_takes(_, _, _)
put_scan_takes(w, h, val) ==
  IF Len(w.ch.takes) > 0
  THEN LET taker == Head(w.ch.takes)
           w1 == [w EXCEPT !.ch.takes = Tail(@)]
       IN IF is_active(w1, h) /\ is_active(w1, taker)
          THEN [w |-> deliver(commit(commit(w1, h), taker), taker, val),
                done |-> TRUE]
          ELSE put_scan_takes(w1, h, val)
  ELSE [w |-> w, done |-> FALSE]

\* A variant of put_park without the "if not handler.is_blockable" exit.
put_park_any_handler(w, h, val) ==
  IF Len(w.ch.puts) >= MAX_QUEUE_SIZE
  THEN Raise(w, "MaxQueueSize")
  ELSE Result([w EXCEPT !.ch.puts = Append(@, <<h, val>>)], RNone)

\* A variant of put_park without the "len(self._puts) >= MAX_QUEUE_SIZE" test.
put_park_unbounded(w, h, val) ==
  IF ~is_blockable(w, h)
  THEN LET f == _fail_op(w, h, FalseV) IN Result(f.w, f.ret)
  ELSE Result([w EXCEPT !.ch.puts = Append(@, <<h, val>>)], RNone)

\* _put from "if not handler.is_blockable" on: fail, raise or enqueue.
put_park(w, h, val) ==
  IF ~is_blockable(w, h)
  THEN LET f == _fail_op(w, h, FalseV) IN Result(f.w, f.ret)
  ELSE IF Len(w.ch.puts) >= MAX_QUEUE_SIZE
       THEN Raise(w, "MaxQueueSize")
       ELSE Result([w EXCEPT !.ch.puts = Append(@, <<h, val>>)], RNone)

\* A variant of _put that writes the value into the buffer before it looks
\* at the handler: an inactive handler's value passes the transducer too.
_put_feeding_first(w0, h, val) ==
  IF val = NoneV THEN Raise(w0, "TypeError")
  ELSE
  LET w == _cleanup(w0)
  IN IF w.ch.is_closed
     THEN LET f == _fail_op(w, h, FalseV) IN Result(f.w, f.ret)
     ELSE IF has_buf(w.ch) /\ ~buf_is_full(w.ch)
     THEN IF ~is_active(w, h)
          THEN Result(_buf_put(w, val), RBool(FalseV))
          ELSE LET w1 == _buf_put(commit(w, h), val)
               IN IF w1.exc # "" THEN Raise(w1, w1.exc)
                  ELSE Result(_distribute_buf_vals(w1), RTuple(TrueV))
     ELSE IF ~has_buf(w.ch)
     THEN LET s == put_scan_takes(w, h, val)
          IN IF s.done THEN Result(s.w, RTuple(TrueV))
             ELSE put_park(s.w, h, val)
     ELSE put_park(w, h, val)

\* A variant of _put without the "if self._is_closed" test.
_put_unchecked_close(w0, h, val) ==
  IF val = NoneV THEN Raise(w0, "TypeError")
  ELSE
  LET w == _cleanup(w0)
  IN IF has_buf(w.ch) /\ ~buf_is_full(w.ch)
     THEN IF ~is_active(w, h)
          THEN Result(w, RBool(FalseV))
          ELSE LET w1 == _buf_put(commit(w, h), val)
               IN IF w1.exc # "" THEN Raise(w1, w1.exc)
                  ELSE Result(_distribute_buf_vals(w1), RTuple(TrueV))
     ELSE IF ~has_buf(w.ch)
     THEN LET s == put_scan_takes(w, h, val)
          IN IF s.done THEN Result(s.w, RTuple(TrueV))
             ELSE put_park(s.w, h, val)
     ELSE put_park(w, h, val)

\* A variant of _put without the "if val is None" test.
_put_accepting_none(w0, h, val) ==
  LET w == _cleanup(w0)
  IN IF w.ch.is_closed
     THEN LET f == _fail_op(w, h, FalseV) IN Result(f.w, f.ret)
     ELSE IF has_buf(w.ch) /\ ~buf_is_full(w.ch)
     THEN IF ~is_active(w, h)
          THEN Result(w, RBool(FalseV))
          ELSE LET w1 == _buf_put(commit(w, h), val)
               IN IF w1.exc # "" THEN Raise(w1, w1.exc)
                  ELSE Result(_distribute_buf_vals(w1), RTuple(TrueV))
     ELSE IF ~has_buf(w.ch)
     THEN LET s == put_scan_takes(w, h, val)
          IN IF s.done THEN Result(s.w, RTuple(TrueV))
             ELSE put_park(s.w, h, val)
     ELSE put_park(w, h, val)

_put(w0, h, val) ==
  IF val = NoneV THEN Raise(w0, "TypeError")
  ELSE
  LET w == _cleanup(w0)
  IN IF w.ch.is_closed
     THEN LET f == _fail_op(w, h, FalseV) IN Result(f.w, f.ret)
     ELSE IF has_buf(w.ch) /\ ~buf_is_full(w.ch)
     THEN IF ~is_active(w, h)
          THEN Result(w, RBool(FalseV))
          ELSE LET w1 == _buf_put(commit(w, h), val)
               IN IF w1.exc # "" THEN Raise(w1, w1.exc)
                  ELSE Result(_distribute_buf_vals(w1), RTuple(TrueV))
     ELSE IF ~has_buf(w.ch)
     THEN LET s == put_scan_takes(w, h, val)
          IN IF s.done THEN Result(s.w, RTuple(TrueV))
             ELSE put_park(s.w, h, val)
     ELSE put_park(w, h, val)

\* A variant of get_refill without "and not self._buf.is_full()".
RECURSIVE get_refill_overfull(_)
get_refill_overfull(w) ==
  IF w.exc = "" /\ Len(w.ch.puts) > 0
  THEN LET putter == Head(w.ch.puts)[1]
           val == Head(w.ch.puts)[2]
           w1 == [w EXCEPT !.ch.puts = Tail(@)]
       IN IF is_active(w1, putter)
          THEN get_refill_overfull(
                 _buf_put(deliver(commit(w1, putter), putter, TrueV), val))
          ELSE get_refill_overfull(w1)
  ELSE w

\* _get's "while len(self._puts) > 0 and not self._buf.is_full()": the
\* refill of the buffer from parked putters.
RECURSIVE get_refill(_)
get_refill(w) ==
  IF w.exc = "" /\ Len(w.ch.puts) > 0 /\ ~buf_is_full(w.ch)
  THEN LET putter == Head(w.ch.puts)[1]
           val == Head(w.ch.puts)[2]
           w1 == [w EXCEPT !.ch.puts = Tail(@)]
       IN IF is_active(w1, putter)
          THEN get_refill(_buf_put(deliver(commit(w1, putter), putter, TrueV),
                                   val))
          ELSE get_refill(w1)
  ELSE w

\* A variant of get_scan_puts that serves the putter parked last (pop()
\* for popleft()).
RECURSIVE get_scan_puts_lifo(_, _)
get_scan_puts_lifo(w, h) ==
  IF Len(w.ch.puts) > 0
  THEN LET n == Len(w.ch.puts)
           putter == w.ch.puts[n][1]
           val == w.ch.puts[n][2]
           w1 == [w EXCEPT !.ch.puts = SubSeq(@, 1, n - 1)]
       IN IF is_active(w1, h) /\ is_active(w1, putter)
          THEN [w |-> deliver(commit(commit(w1, h), putter), putter, TrueV),
                done |-> TRUE, val |-> val]
          ELSE get_scan_puts_lifo(w1, h)
  ELSE [w |-> w, done |-> FALSE, val |-> NoneV]

\* _get's "while len(self._puts) > 0": the hand-off from a parked putter.
RECURSIVE get_scan_puts(_, _)
get_scan_puts(w, h) ==
  IF Len(w.ch.puts) > 0
  THEN LET putter == Head(w.ch.puts)[1]
           val == Head(w.ch.puts)[2]
           w1 == [w EXCEPT !.ch.puts = Tail(@)]
       IN IF is_active(w1, h) /\ is_active(w1, putter)
          THEN [w |-> deliver(commit(commit(w1, h), putter), putter, TrueV),
                done |-> TRUE, val |-> val]
          ELSE get_scan_puts(w1, h)
  ELSE [w |-> w, done |-> FALSE, val |-> NoneV]

\* A variant of get_park that tests only is_blockable, not _is_closed.
get_park_unchecked_close(w, h) ==
  IF ~is_blockable(w, h)
  THEN LET f == _fail_op(w, h, NoneV) IN Result(f.w, f.ret)
  ELSE IF Len(w.ch.takes) >= MAX_QUEUE_SIZE
       THEN Raise(w, "MaxQueueSize")
       ELSE Result([w EXCEPT !.ch.takes = Append(@, h)], RNone)

\* _get from "if self._is_closed or not handler.is_blockable" on.
get_park(w, h) ==
  IF w.ch.is_closed \/ ~is_blockable(w, h)
  THEN LET f == _fail_op(w, h, NoneV) IN Result(f.w, f.ret)
  ELSE IF Len(w.ch.takes) >= MAX_QUEUE_SIZE
       THEN Raise(w, "MaxQueueSize")
       ELSE Result([w EXCEPT !.ch.takes = Append(@, h)], RNone)

_get(w0, h) ==
  LET w == _cleanup(w0)
  IN IF has_buf(w.ch) /\ buf_len(w.ch) > 0
     THEN IF ~is_active(w, h)
          THEN Result(w, RTuple(NoneV))
          ELSE LET w1 == commit(w, h)
                   v == buf_get_val(w1.ch)
                   w2 == get_refill([w1 EXCEPT !.ch = buf_get_rest(@)])
               IN IF w2.exc # "" THEN Raise(w2, w2.exc)
                  ELSE Result(_complete_xform_if_ready(w2), RTuple(v))
     ELSE IF ~has_buf(w.ch)
     THEN LET s == get_scan_puts(w, h)
          IN IF s.done THEN Result(s.w, RTuple(s.val))
             ELSE get_park(s.w, h)
     ELSE get_park(w, h)

\* Chan.close
close(w) == _close(_cleanup(w))

\* ------------------------------------------------------------- operations
ChanIds == DOMAIN chans

\* A handler made for one operation on channel c.
NewHandler(op, c, v, flag, blockable, a) ==
  [op |-> op, ch |-> c, val |-> v, flag |-> flag, blockable |-> blockable,
   alt |-> a]

\* What `last` records of an operation: the channel, the flags and the
\* handler's is_active as the call found them, and what the call returned
\* or raised.
LastOp(op, c, h, v, wasActive, r) ==
  [op |-> op, c |-> c, h |-> h, val |-> v, active |-> wasActive,
   pre |-> chans[c], preact |-> act, ret |-> r.ret, exc |-> r.exc]

NoResult == [ret |-> RUnset, exc |-> ""]

\* The world w after a call on channel c becomes the state.
Store(c, w) ==
  /\ chans' = [chans EXCEPT ![c] = w.ch]
  /\ act' = w.act
  /\ cmt' = w.cmt
  /\ dlv' = w.dlv

\* Chan._put(handler, val) with a handler of its own flag: t_put and offer
\* make an active one; active = FALSE is a handler whose flag was already
\* flipped when it is presented.  The channel never inspects a value (but
\* for None), so each put carries a value of its own, the number of its
\* handler: a value lost, duplicated or out of order is then visible.
PutVal(h) == h

DoPut(c, v, wait, active) ==
  /\ nextH \in DOMAIN hd
  /\ LET h == nextH
         w0 == [World(c) EXCEPT
                  !.hd[h] = NewHandler("put", c, v, h, wait, 0),
                  !.act[h] = active]
     IN \E r \in {_put(w0, h, v)} :
          /\ Store(c, r.w)
          /\ hd' = r.w.hd
          /\ ret' = [ret EXCEPT ![h] = r.ret]
          /\ rcv' = [rcv EXCEPT ![c] = r.w.rcv]
          /\ last' = LastOp("put", c, h, v, active, r)
  /\ nextH' = nextH + 1
  /\ UNCHANGED <<alts, lkvars>>

\* The values gets have obtained, after a _get call that returned r.
Received(r) ==
  IF r.ret.tag = "tuple" /\ r.ret.val # NoneV
  THEN Append(r.w.rcv, r.ret.val)
  ELSE r.w.rcv

\* Chan._get(handler): t_get and poll, or an already inactive handler.
DoGet(c, wait, active) ==
  /\ nextH \in DOMAIN hd
  /\ LET h == nextH
         w0 == [World(c) EXCEPT
                  !.hd[h] = NewHandler("get", c, NoneV, h, wait, 0),
                  !.act[h] = active]
     IN \E r \in {_get(w0, h)} :
          /\ Store(c, r.w)
          /\ hd' = r.w.hd
          /\ ret' = [ret EXCEPT ![h] = r.ret]
          /\ rcv' = [rcv EXCEPT ![c] = Received(r)]
          /\ last' = LastOp("get", c, h, NoneV, active, r)
  /\ nextH' = nextH + 1
  /\ UNCHANGED <<alts, lkvars>>

\* Chan.close()
DoClose(c) ==
  /\ \E w \in {close(World(c))} :
       /\ Store(c, w)
       /\ rcv' = [rcv EXCEPT ![c] = w.rcv]
  /\ last' = LastOp("close", c, 0, NoneV, FALSE, NoResult)
  /\ UNCHANGED <<hd, ret, nextH, alts, lkvars>>

\* h is parked on its channel.
Parked(h) ==
  /\ hd[h].op # "none"
  /\ \/ \E i \in DOMAIN chans[hd[h].ch].takes : chans[hd[h].ch].takes[i] = h
     \/ \E i \in DOMAIN chans[hd[h].ch].puts : chans[hd[h].ch].puts[i][1] = h

\* The caller of a parked operation cancels it: the flag of its handler is
\* flipped, the channel learns of it at its next prune.
Cancel(h) ==
  /\ Parked(h)
  /\ act[hd[h].flag]
  /\ act' = [act EXCEPT ![hd[h].flag] = FALSE]
  /\ last' = LastOp("cancel", hd[h].ch, h, NoneV, TRUE, NoResult)
  /\ UNCHANGED <<chans, hd, cmt, dlv, ret, rcv, nextH, alts, lkvars>>

\* The caller of an operation that parked cancels it after it was committed:
\* the flag is assigned False once more.
CancelLate(h) ==
  /\ hd[h].op # "none"
  /\ ret[h] = RNone
  /\ cmt[h] > 0
  /\ act' = [act EXCEPT ![hd[h].flag] = FALSE]
  /\ last' = LastOp("cancel", hd[h].ch, h, NoneV, FALSE, NoResult)
  /\ UNCHANGED <<chans, hd, cmt, dlv, ret, rcv, nextH, alts, lkvars>>

\* ------------------------------------------------ one channel, no alts
ChanConfigs ==
  {NewChan("none", 0, "identity")}
    \cup {NewChan("fixed", n, "identity") : n \in 1..MaxCap}

\* No thread is inside a call: the operations below are whole calls.
NoThreads == thr = <<>> /\ ev = {}

InitHandlers ==
  /\ hd = [h \in HandlerIds |-> NoHandler]
  /\ act = [f \in FlagIds |-> TRUE]
  /\ cmt = [h \in HandlerIds |-> 0]
  /\ dlv = [h \in HandlerIds |-> <<>>]
  /\ ret = [h \in HandlerIds |-> RUnset]
  /\ nextH = 1
  /\ NoThreads

InitLast ==
  [op |-> "init", c |-> 0, h |-> 0, val |-> NoneV, active |-> FALSE,
   pre |-> NewChan("none", 0, "identity"), preact |-> [f \in FlagIds |-> TRUE],
   ret |-> RUnset, exc |-> ""]

Init ==
  /\ chans \in [{1} -> ChanConfigs]
  /\ rcv = [c \in {1} |-> <<>>]
  /\ InitHandlers
  /\ alts = <<>>
  /\ last = InitLast

\* The handlers presented: an active one, blockable (t_put, t_get) or not
\* (offer, poll), or a blockable one whose flag is already inactive.
HandlerModes == {<<TRUE, TRUE>>, <<FALSE, TRUE>>, <<TRUE, FALSE>>}

Next ==
  \/ \E c \in ChanIds, m \in HandlerModes : DoPut(c, PutVal(nextH), m[1], m[2])
  \/ \E c \in ChanIds, m \in HandlerModes : DoGet(c, m[1], m[2])
  \/ \E c \in ChanIds : DoClose(c)
  \/ \E h \in HandlerIds : Cancel(h)

Spec == Init /\ [][Next]_vars

\* ------------------------- one channel, with or without a transducer
XfConfigs == {NewChan("fixed", n, "partition_all") : n \in 1..MaxCap}

InitXf ==
  /\ chans \in [{1} -> ChanConfigs \cup XfConfigs]
  /\ rcv = [c \in {1} |-> <<>>]
  /\ InitHandlers
  /\ alts = <<>>
  /\ last = InitLast

SpecXf == InitXf /\ [][Next]_vars

\* ------------------ one channel with a transducer that may end early
TakeConfigs == {NewChan("fixed", n, "take") : n \in 1..MaxCap}

InitTk ==
  /\ chans \in [{1} -> XfConfigs \cup TakeConfigs]
  /\ rcv = [c \in {1} |-> <<>>]
  /\ InitHandlers
  /\ alts = <<>>
  /\ last = InitLast

SpecTk == InitTk /\ [][Next]_vars

\* ------------------------------ one channel with an unblocking buffer
\* dropping and sliding buffers of each capacity, and the promise buffer
\* (which holds one value).
UnblockingConfigs ==
  {NewChan(k, n, "identity") : k \in {"dropping", "sliding"}, n \in 1..MaxCap}
    \cup {NewChan("promise", 1, "identity")}

InitUb ==
  /\ chans \in [{1} -> UnblockingConfigs]
  /\ rcv = [c \in {1} |-> <<>>]
  /\ InitHandlers
  /\ alts = <<>>
  /\ last = InitLast

SpecUb == InitUb /\ [][Next]_vars

\* ------------------------------------- one channel, with puts of None
\* As Next, and t_put(None) / offer(None).
NextNone ==
  \/ Next
  \/ \E c \in ChanIds, wait \in BOOLEAN : DoPut(c, NoneV, wait, TRUE)

SpecNone == Init /\ [][NextNone]_vars

\* ------------------------- one channel, constructed with any arguments
\* buf is None or buffer(1), xform is None or take(2), ex_handler is None or
\* a function returning None.
CtorArgs ==
  {<<k[1], k[2], x, e>> : k \in {<<"none", 0>>, <<"fixed", 1>>},
                          x \in {"None", "take"}, e \in {"None", "null"}}

InitCtor ==
  /\ chans \in [{1} -> {Chan_init(a[1], a[2], a[3], a[4]) : a \in CtorArgs}]
  /\ rcv = [c \in {1} |-> <<>>]
  /\ InitHandlers
  /\ alts = <<>>
  /\ last = InitLast

SpecCtor == InitCtor /\ [][Next]_vars

\* ---------------- one buffered channel whose transducer fails on inputs
\* chan(n, xf.map(f), ex_handler): f raises on some inputs (map_div) or
\* returns None for them (map_none); ex_handler is the default, a function
\* returning a value, one returning None, or one that raises.
ExHandlers == {"None", "value", "null", "raise"}

ExConfigs ==
  {Chan_init("fixed", n, x, e) :
     n \in 1..MaxCap, x \in {"map_div", "map_none"}, e \in ExHandlers}

InitEx ==
  /\ chans \in [{1} -> ExConfigs]
  /\ rcv = [c \in {1} |-> <<>>]
  /\ InitHandlers
  /\ alts = <<>>
  /\ last = InitLast

\* t_put / t_get (blockable) and offer / poll, with active handlers.
NextEx ==
  \/ \E c \in ChanIds, wait \in BOOLEAN : DoPut(c, PutVal(nextH), wait, TRUE)
  \/ \E c \in ChanIds, wait \in BOOLEAN : DoGet(c, wait, TRUE)
  \/ \E c \in ChanIds : DoClose(c)
  \/ \E h \in HandlerIds : Cancel(h)

SpecEx == InitEx /\ [][NextEx]_vars

\* ------------- one buffered channel whose transducer filters or expands
\* chan(n, xf.filter(pred)) and chan(n, xf.cat) with the default
\* ex_handler.  A put on the cat channel carries a collection: [h, h] or
\* [h, None, h] for the put of handler h.
CatConfigs ==
  {Chan_init("fixed", n, x, "None") : n \in 1..MaxCap, x \in {"filter", "cat"}}

CatInputs(ch, h) ==
  IF ch.xform = "cat"
  THEN {TupleOf(<<h, h>>), TupleOf(<<h, NoneV, h>>)}
  ELSE {PutVal(h)}

InitCat ==
  /\ chans \in [{1} -> CatConfigs]
  /\ rcv = [c \in {1} |-> <<>>]
  /\ InitHandlers
  /\ alts = <<>>
  /\ last = InitLast

NextCat ==
  \/ \E c \in ChanIds, wait \in BOOLEAN :
       \E v \in CatInputs(chans[c], nextH) : DoPut(c, v, wait, TRUE)
  \/ \E c \in ChanIds, wait \in BOOLEAN : DoGet(c, wait, TRUE)
  \/ \E c \in ChanIds : DoClose(c)
  \/ \E h \in HandlerIds : Cancel(h)

SpecCat == InitCat /\ [][NextCat]_vars

\* ------------------------------- one channel whose queue is near full
\* ------------------------------------- a channel with comp(cat, take(n))
\* chan(n, xf.comp(xf.cat, xf.take(TakeN))): collections of one and of three
\* values are put, so that take ends at the end or in the middle of one.
CatTakeConfigs ==
  {Chan_init("fixed", n, "cat_take", "None") : n \in 1..MaxCap}

CatTakeInputs(h) == {TupleOf(<<h>>), TupleOf(<<h, h, h>>)}

InitCatTake ==
  /\ chans \in [{1} -> CatTakeConfigs]
  /\ rcv = [c \in {1} |-> <<>>]
  /\ InitHandlers
  /\ alts = <<>>
  /\ last = InitLast

NextCatTake ==
  \/ \E c \in ChanIds, wait \in BOOLEAN :
       \E v \in CatTakeInputs(nextH) : DoPut(c, v, wait, TRUE)
  \/ \E c \in ChanIds, wait \in BOOLEAN : DoGet(c, wait, TRUE)
  \/ \E c \in ChanIds : DoClose(c)
  \/ \E h \in HandlerIds : Cancel(h)

SpecCatTake == InitCatTake /\ [][NextCatTake]_vars

\* -------------------------- a channel with comp(interpose(sep), take(n))
\* chan(n, xf.comp(xf.interpose(SepVal), xf.take(TakeN))).
InterposeConfigs ==
  {Chan_init("fixed", n, "interpose_take", "None") : n \in 1..MaxCap}

InitInterpose ==
  /\ chans \in [{1} -> InterposeConfigs]
  /\ rcv = [c \in {1} |-> <<>>]
  /\ InitHandlers
  /\ alts = <<>>
  /\ last = InitLast

SpecInterpose == InitInterpose /\ [][Next]_vars

\* The channel after MAX_QUEUE_SIZE - 1 blockable operations of one kind have
\* parked on it: puts or gets on an unbuffered channel.  QExtra further
\* operations follow.
QParked == 1..(MAX_QUEUE_SIZE - 1)
QIds == 1..(MAX_QUEUE_SIZE - 1 + QExtra)

QChan(side, kind) ==
  [NewChan(kind, IF kind = "none" THEN 0 ELSE 1, "identity") EXCEPT
     !.puts = IF side = "put" THEN [h \in QParked |-> <<h, PutVal(h)>>] ELSE <<>>,
     !.takes = IF side = "get" THEN [h \in QParked |-> h] ELSE <<>>]

QSides == {<<"put", "none">>, <<"get", "none">>}

InitQ ==
  \E sk \in QSides :
    /\ chans = [c \in {1} |-> QChan(sk[1], sk[2])]
    /\ rcv = [c \in {1} |-> <<>>]
    /\ hd = [h \in QIds |->
               IF h \in QParked
               THEN NewHandler(sk[1], 1, IF sk[1] = "put" THEN PutVal(h) ELSE NoneV,
                               h, TRUE, 0)
               ELSE NoHandler]
    /\ act = [f \in QIds |-> TRUE]
    /\ cmt = [h \in QIds |-> 0]
    /\ dlv = [h \in QIds |-> <<>>]
    /\ ret = [h \in QIds |-> IF h \in QParked THEN RNone ELSE RUnset]
    /\ nextH = MAX_QUEUE_SIZE
    /\ NoThreads
    /\ alts = <<>>
    /\ last = [InitLast EXCEPT !.preact = [f \in QIds |-> TRUE]]

\* The first parked operation and the new ones may be cancelled.
QCancellable == {1} \cup (QIds \ QParked)

NextQ ==
  \/ \E c \in ChanIds, wait \in BOOLEAN : DoPut(c, PutVal(nextH), wait, TRUE)
  \/ \E c \in ChanIds, wait \in BOOLEAN : DoGet(c, wait, TRUE)
  \/ \E h \in QCancellable : Cancel(h)

SpecQ == InitQ /\ [][NextQ]_vars

\* ------------------- one channel with a transducer, filled and drained
\* The channels of the drain scenarios: chan(1, take(2)),
\* chan(1, partition_all(2)) and chan(3, partition_all(2)).  Threads put and
\* get with blockable handlers (f_put, b_put, b_get), close, and cancel.
DrainIds == 1..MaxDrain

DrainConfigs ==
  {NewChan("fixed", 1, "take"), NewChan("fixed", 1, "partition_all"),
   NewChan("fixed", 3, "partition_all")}

InitDrain ==
  /\ chans \in [{1} -> DrainConfigs]
  /\ rcv = [c \in {1} |-> <<>>]
  /\ hd = [h \in DrainIds |-> NoHandler]
  /\ act = [f \in DrainIds |-> TRUE]
  /\ cmt = [h \in DrainIds |-> 0]
  /\ dlv = [h \in DrainIds |-> <<>>]
  /\ ret = [h \in DrainIds |-> RUnset]
  /\ nextH = 1
  /\ NoThreads
  /\ alts = <<>>
  /\ last = [InitLast EXCEPT !.preact = [f \in DrainIds |-> TRUE]]

NextDrain ==
  \/ \E c \in ChanIds : DoPut(c, PutVal(nextH), TRUE, TRUE)
  \/ \E c \in ChanIds : DoGet(c, TRUE, TRUE)
  \/ \E c \in ChanIds : DoClose(c)
  \/ \E h \in DrainIds : Cancel(h)

SpecDrain == InitDrain /\ [][NextDrain]_vars

\* ------------------------------------------- two channels, two alts
\* alt(ops, priority=True) without a default: the ops are presented in list
\* order (a random order is another list), each with a blockable handler on
\* the alt's one flag.  state is "running" while ops remain to be presented,
\* "parked" once all were presented and none returned a result, "returned"
\* with the (val, ch) of the first call that returned a tuple, "raised" when
\* the driver's ret[0] fails on a return value that is no tuple.
AltChans == {1, 2}

AltOp(kind, c) == [kind |-> kind, ch |-> c]

\* The lists of ops: a get or a put on each of the two channels, in either
\* order (no channel twice).
AltOpLists ==
  UNION {{<<AltOp(k1, c1), AltOp(k2, c2)>> :
            k1 \in {"get", "put"}, k2 \in {"get", "put"},
            c2 \in AltChans \ {c1}} : c1 \in AltChans}

NewAlt(ops) ==
  [ops |-> ops, pc |-> 1, state |-> "running", result |-> <<>>, dflt |-> FALSE]

\* An alt called with default=DefaultVal; its result on the default branch
\* is (DefaultVal, 'default'), the sentinel written DefaultCh.
DefaultVal == 98
DefaultCh == 0
NewAltDefault(ops) == [NewAlt(ops) EXCEPT !.dflt = TRUE]

\* A variant of AltAfter that goes on to the next op after a call returned
\* a tuple.
AltAfter_continuing(alt, c, r, flagActive) ==
  IF r.ret.tag = "bool"
  THEN [alt EXCEPT !.state = "raised"]
  ELSE IF alt.pc < Len(alt.ops)
  THEN [alt EXCEPT !.pc = @ + 1,
                   !.result = IF r.ret.tag = "tuple" THEN <<r.ret.val, c>> ELSE @]
  ELSE IF r.ret.tag = "tuple"
  THEN [alt EXCEPT !.state = "returned", !.result = <<r.ret.val, c>>]
  ELSE [alt EXCEPT !.pc = @ + 1, !.state = "parked"]

\* The alt after the call for its op number pc returned r on channel c;
\* flagActive is is_active of the alt's flag after that call.  When the last
\* call returned None too, an alt with a default whose flag is still active
\* takes the default branch, any other is parked.
AltAfter(alt, c, r, flagActive) ==
  IF r.ret.tag = "tuple"
  THEN [alt EXCEPT !.state = "returned", !.result = <<r.ret.val, c>>]
  ELSE IF r.ret.tag = "bool"
  THEN [alt EXCEPT !.state = "raised"]
  ELSE IF alt.pc < Len(alt.ops)
  THEN [alt EXCEPT !.pc = @ + 1]
  ELSE IF alt.dflt /\ flagActive
  THEN [alt EXCEPT !.pc = @ + 1, !.state = "returned",
                   !.result = <<DefaultVal, DefaultCh>>]
  ELSE [alt EXCEPT !.pc = @ + 1, !.state = "parked"]

\* Alt a presents its next op to that op's channel.
AltPresent(a) ==
  /\ alts[a].state = "running"
  /\ nextH \in DOMAIN hd
  /\ LET o == alts[a].ops[alts[a].pc]
         h == nextH
         v == IF o.kind = "put" THEN PutVal(h) ELSE NoneV
         w0 == [World(o.ch) EXCEPT
                  !.hd[h] = NewHandler(o.kind, o.ch, v, AltFlag(a),
                                       ~alts[a].dflt, a)]
     IN \E r \in {IF o.kind = "put" THEN _put(w0, h, v) ELSE _get(w0, h)} :
        \E after \in {AltAfter(alts[a], o.ch, r, r.w.act[AltFlag(a)])} :
          /\ Store(o.ch, IF after.state = "returned" /\ after.result[2] = DefaultCh
                         THEN [r.w EXCEPT !.act[AltFlag(a)] = FALSE]
                         ELSE r.w)
          /\ hd' = r.w.hd
          /\ ret' = [ret EXCEPT ![h] = r.ret]
          /\ rcv' = [rcv EXCEPT ![o.ch] = IF o.kind = "get" THEN Received(r)
                                          ELSE r.w.rcv]
          /\ last' = LastOp(o.kind, o.ch, h, v, act[AltFlag(a)], r)
          /\ alts' = [alts EXCEPT ![a] = after]
  /\ nextH' = nextH + 1
  /\ UNCHANGED lkvars

AltChanConfigs == {NewChan("none", 0, "identity"), NewChan("fixed", 1, "identity")}

\* The two channels are interchangeable, so alt 1 begins with channel 1.
InitAlt ==
  /\ chans \in [AltChans -> AltChanConfigs]
  /\ rcv = [c \in AltChans |-> <<>>]
  /\ InitHandlers
  /\ alts \in [AltIds -> {NewAlt(ops) : ops \in AltOpLists}]
  /\ alts[1].ops[1].ch = 1
  /\ last = InitLast

\* The alts, and other threads' single operations on the same channels.
NextAlt ==
  \/ \E a \in AltIds : AltPresent(a)
  \/ \E c \in ChanIds : DoPut(c, PutVal(nextH), TRUE, TRUE)
  \/ \E c \in ChanIds : DoGet(c, TRUE, TRUE)

SpecAlt == InitAlt /\ [][NextAlt]_vars

\* The same with alts that were given a default.
InitAltDefault ==
  /\ chans \in [AltChans -> AltChanConfigs]
  /\ rcv = [c \in AltChans |-> <<>>]
  /\ InitHandlers
  /\ alts \in [AltIds -> {NewAltDefault(ops) : ops \in AltOpLists}]
  /\ alts[1].ops[1].ch = 1
  /\ last = InitLast

SpecAltDefault == InitAltDefault /\ [][NextAlt]_vars

\* One channel, an alt with one op on it (alt(ch) or alt([ch, val])) and
\* other callers' operations; all may be cancelled once parked.
InitCancel ==
  /\ chans \in [{1} -> AltChanConfigs]
  /\ rcv = [c \in {1} |-> <<>>]
  /\ InitHandlers
  /\ alts \in [{1} -> {NewAlt(<<AltOp(k, 1)>>) : k \in {"get", "put"}}]
  /\ last = InitLast

NextCancel ==
  \/ \E a \in DOMAIN alts : AltPresent(a)
  \/ \E c \in ChanIds, wait \in BOOLEAN : DoPut(c, PutVal(nextH), wait, TRUE)
  \/ \E c \in ChanIds, wait \in BOOLEAN : DoGet(c, wait, TRUE)
  \/ \E h \in HandlerIds : Cancel(h)
  \/ \E h \in HandlerIds : CancelLate(h)

SpecCancel == InitCancel /\ [][NextCancel]_vars

\* ------------------------------------------------------------- claims
Presented == 1..(nextH - 1)

\* The put of handler h was accepted: its call returned (True,) or its
\* callback was called with True.
Accepted(h) ==
  /\ hd[h].op = "put"
  /\ \/ ret[h] = RTuple(TrueV)
     \/ \E i \in DOMAIN dlv[h] : dlv[h][i] = TrueV

\* The values of the accepted puts on channel c, in the order of the put calls.
RECURSIVE AcceptedFrom(_, _)
AcceptedFrom(c, h) ==
  IF h >= nextH THEN <<>>
  ELSE IF hd[h].ch = c /\ Accepted(h)
       THEN <<hd[h].val>> \o AcceptedFrom(c, h + 1)
       ELSE AcceptedFrom(c, h + 1)

IsPrefix(s, t) == Len(s) <= Len(t) /\ s = SubSeq(t, 1, Len(s))

\* C1: on a channel without a transducer, unbuffered or with a fixed buffer,
\* the values the gets obtained are, in order, the values of the accepted
\* puts in the order they were put: none lost, duplicated or reordered.
C1_Conservation ==
  \A c \in ChanIds :
    chans[c].xform = "identity" => IsPrefix(rcv[c], AcceptedFrom(c, 1))

\* Two values were received, one of them from a putter that had parked.
C1_Witness ==
  \E c \in ChanIds :
    /\ Len(rcv[c]) >= 2
    /\ \E h \in Presented : hd[h].op = "put" /\ dlv[h] = <<TrueV>>

\* The entries of a queue of takers / of putters whose handler was active
\* when the last operation began.
WasActive(h) == last.preact[hd[h].flag]
ActiveTakersBefore == LET T(h) == WasActive(h) IN SelectSeq(last.pre.takes, T)
ActivePuttersBefore == LET P(p) == WasActive(p[1]) IN SelectSeq(last.pre.puts, P)

\* C3: a put on a buffered channel with room, presented with a handler that
\* is already inactive, returns None and leaves the buffer as it was (so a
\* following poll finds what it would have found).
C3_InactivePutReturnsNone ==
  (/\ last.op = "put"
   /\ ~last.active
   /\ has_buf(last.pre)
   /\ ~buf_is_full(last.pre))
  => /\ last.ret = RNone
     /\ chans[last.c].buf = last.pre.buf

\* C4: a get on a buffered channel holding a value, presented with a handler
\* that is already inactive, returns None and leaves the value in the buffer.
C4_InactiveGetReturnsNone ==
  (/\ last.op = "get"
   /\ ~last.active
   /\ has_buf(last.pre)
   /\ buf_len(last.pre) > 0)
  => /\ last.ret = RNone
     /\ chans[last.c].buf = last.pre.buf

\* C5: on an unbuffered channel a put with an inactive handler returns None
\* and leaves every active parked taker in takes; a get with an inactive
\* handler returns None and leaves every active parked putter in puts.
C5_InactiveKeepsCounterparties ==
  /\ (last.op = "put" /\ ~last.active /\ ~has_buf(last.pre))
       => /\ last.ret = RNone
          /\ chans[last.c].takes = ActiveTakersBefore
  /\ (last.op = "get" /\ ~last.active /\ ~has_buf(last.pre))
       => /\ last.ret = RNone
          /\ chans[last.c].puts = ActivePuttersBefore

\* The putters of queue ps that are among those of queue qs.
AllFrom(ps, qs) == \A i \in DOMAIN ps : \E j \in DOMAIN qs : ps[i] = qs[j]

\* C6: after close every put, blockable or not, whatever the buffer, completes
\* at once with False; the channel stays closed, no entry is appended to puts
\* once it is closed, and such a put does not write the buffer.
C6_ClosedRejectsPuts ==
  /\ (last.op # "init" /\ last.pre.is_closed)
       => /\ chans[last.c].is_closed
          /\ AllFrom(chans[last.c].puts, last.pre.puts)
  /\ (last.op = "put" /\ last.pre.is_closed)
       => /\ chans[last.c].buf = last.pre.buf
          /\ last.active => /\ last.ret = RTuple(FalseV)
                            /\ dlv[last.h] = <<>>
          /\ ~last.active => last.ret = RNone

\* A blockable put found the channel closed with its buffer full, and a put
\* before it had been rejected as well.
C6_Witness ==
  /\ last.op = "put" /\ last.active /\ hd[last.h].blockable
  /\ last.pre.is_closed /\ has_buf(last.pre) /\ buf_is_full(last.pre)
  /\ last.ret = RTuple(FalseV)
  /\ \E h \in Presented : h # last.h /\ hd[h].op = "put" /\ ret[h] = RTuple(FalseV)

\* The channel is closed, its buffer is empty or absent and no active putter
\* is parked.
Drained(ch, active) ==
  /\ ch.is_closed
  /\ ch.buf = <<>>
  /\ \A i \in DOMAIN ch.puts : ~active[hd[ch.puts[i][1]].flag]

\* C7: once the channel is closed and drained with no putter parked, every
\* get, blockable or not, returns None at once and does not park, and the
\* channel stays so for all later gets.
C7_ClosedDrainedGetsNone ==
  /\ (last.op # "init" /\ Drained(last.pre, last.preact))
       => Drained(chans[last.c], act)
  /\ (last.op = "get" /\ last.active /\ Drained(last.pre, last.preact))
       => /\ last.ret = RTuple(NoneV)
          /\ dlv[last.h] = <<>>
          /\ chans[last.c].takes = <<>>

\* A blockable get returned None on the closed, drained channel, after an
\* earlier get had.
C7_Witness ==
  /\ last.op = "get" /\ last.active /\ hd[last.h].blockable
  /\ Drained(last.pre, last.preact)
  /\ last.ret = RTuple(NoneV)
  /\ \E h \in Presented :
       h # last.h /\ hd[h].op = "get" /\ hd[h].blockable /\ ret[h] = RTuple(NoneV)

\* The values the callbacks of the handlers in hs (a sequence) were called
\* with, in the order of hs.
RECURSIVE DeliveredTo(_)
DeliveredTo(hs) ==
  IF hs = <<>> THEN <<>> ELSE dlv[Head(hs)] \o DeliveredTo(Tail(hs))

NotNone(v) == v # NoneV

\* C8: close commits every active taker parked at that moment: each receives
\* a value still obtainable from the buffer, in FIFO order, if there is one,
\* otherwise None; after close no taker is parked, nor ever again.
C8_CloseCommitsTakers ==
  /\ (last.op # "init" /\ last.pre.is_closed) => chans[last.c].takes = <<>>
  /\ last.op = "close" =>
       LET ts == ActiveTakersBefore
           got == DeliveredTo(ts)
       IN /\ chans[last.c].takes = <<>>
          /\ \A i \in DOMAIN ts :
               /\ cmt[ts[i]] = 1 /\ ~act[hd[ts[i]].flag] /\ Len(dlv[ts[i]]) = 1
               /\ \A j \in DOMAIN ts :
                    (i < j /\ dlv[ts[i]] = <<NoneV>>) => dlv[ts[j]] = <<NoneV>>
          /\ (\E i \in DOMAIN got : got[i] = NoneV) => chans[last.c].buf = <<>>
          /\ IsPrefix(last.pre.buf, SelectSeq(got, NotNone) \o chans[last.c].buf)
          /\ \A i \in DOMAIN last.pre.takes :
               ~WasActive(last.pre.takes[i]) => dlv[last.pre.takes[i]] = <<>>

\* close found two active takers parked: the first received a value from the
\* buffer, the second None.
C8_Witness ==
  /\ last.op = "close"
  /\ Len(ActiveTakersBefore) = 2
  /\ dlv[ActiveTakersBefore[1]] # <<NoneV>>
  /\ dlv[ActiveTakersBefore[2]] = <<NoneV>>

\* The values of a queue of putters.
RECURSIVE PutterVals(_)
PutterVals(ps) ==
  IF ps = <<>> THEN <<>> ELSE <<Head(ps)[2]>> \o PutterVals(Tail(ps))

StillParked(h) == \E i \in DOMAIN chans[last.c].puts : chans[last.c].puts[i][1] = h

\* C9: close does not reject parked putters: they stay in puts, uncommitted; a
\* get after close takes the buffer's value or (unbuffered) the first parked
\* putter's, the putters it consumes complete with True, and a get returns
\* None only when the buffer and the parked putters are drained.
C9_CloseKeepsPutters ==
  /\ last.op = "close" =>
       /\ chans[last.c].puts = ActivePuttersBefore
       /\ \A i \in DOMAIN ActivePuttersBefore :
            LET p == ActivePuttersBefore[i][1]
            IN act[hd[p].flag] /\ dlv[p] = <<>> /\ cmt[p] = 0
  /\ (last.op = "get" /\ last.active /\ last.pre.is_closed) =>
       LET ps == ActivePuttersBefore
           vals == last.pre.buf \o PutterVals(ps)
       IN /\ last.ret.tag = "tuple"
          /\ last.ret.val = NoneV <=> (last.pre.buf = <<>> /\ ps = <<>>)
          /\ (last.pre.xform = "identity" /\ vals # <<>>)
               => last.ret.val = Head(vals)
          /\ \A i \in DOMAIN ps :
               IF StillParked(ps[i][1])
               THEN dlv[ps[i][1]] = <<>>
               ELSE dlv[ps[i][1]] = <<TrueV>>

\* A get after close consumed a putter that had parked before the close.
C9_Witness ==
  /\ last.op = "get" /\ last.active /\ last.pre.is_closed
  /\ \E i \in DOMAIN ActivePuttersBefore :
       dlv[ActivePuttersBefore[i][1]] = <<TrueV>>

\* C10 as claimed: close on an already closed channel changes no state but
\* for pruned putters, and delivers nothing.
C10_CloseIdempotent ==
  (last.op = "close" /\ last.pre.is_closed)
  => /\ chans[last.c] = [last.pre EXCEPT !.puts = ActivePuttersBefore]
     /\ act = last.preact

\* C10 as amended: close on an already closed channel delivers nothing, keeps
\* closed, takes and the puts of active handlers and never runs the completion
\* a second time; it changes nothing else when the completion has run, the
\* channel is unbuffered or an active putter is still parked.  Otherwise (the
\* putters that held the completion back have all been cancelled) it runs the
\* completion, for the first time.
C10_CloseIdempotentOnceCompleted ==
  (last.op = "close" /\ last.pre.is_closed)
  => /\ act = last.preact
     /\ chans[last.c].completions <= 1
     /\ IF \/ last.pre.xform_is_completed
           \/ ~has_buf(last.pre)
           \/ ActivePuttersBefore # <<>>
        THEN chans[last.c] = [last.pre EXCEPT !.puts = ActivePuttersBefore]
        ELSE /\ chans[last.c] =
                  [last.pre EXCEPT !.puts = <<>>,
                                   !.xform_is_completed = TRUE,
                                   !.completions = 1,
                                   !.buf = chans[last.c].buf,
                                   !.xbuf = chans[last.c].xbuf]
             /\ IsPrefix(last.pre.buf, chans[last.c].buf)

\* close was called on a closed channel whose completion had run and whose
\* buffer still held a value.
C10_Witness ==
  /\ last.op = "close" /\ last.pre.is_closed
  /\ last.pre.xform_is_completed /\ last.pre.completions = 1
  /\ last.pre.buf # <<>>

\* The handlers alt a has presented, and what happened to them.
RECURSIVE AltCommits(_, _)
AltCommits(a, h) ==
  IF h >= nextH THEN 0
  ELSE (IF hd[h].alt = a THEN cmt[h] ELSE 0) + AltCommits(a, h + 1)

RECURSIVE AltDeliveries(_, _)
AltDeliveries(a, h) ==
  IF h >= nextH THEN 0
  ELSE (IF hd[h].alt = a THEN Len(dlv[h]) ELSE 0) + AltDeliveries(a, h + 1)

\* The results alt a has: the one its call returned, those its callbacks got.
AltResults(a) ==
  (IF alts[a].state = "returned" THEN 1 ELSE 0) + AltDeliveries(a, 1)

\* C2: of two concurrent alts sharing channels at most one op of each alt
\* commits; once one has, the alt's flag is inactive and no sibling is ever
\* committed, so the alt delivers exactly one result: the one of the op that
\* committed, and nothing else (no second result, no error).
C2_AltOneResult ==
  \A a \in AltIds :
    /\ AltCommits(a, 1) <= 1
    /\ AltCommits(a, 1) = 1 => ~act[AltFlag(a)]
    /\ alts[a].state # "raised"
    /\ AltResults(a) = AltCommits(a, 1)

\* C11: on a buffered channel the completion arity is called at most once,
\* and xform-completed is set exactly when it was called.  It has been called
\* after every close that leaves no putter parked, after every get on the
\* closed channel that takes a buffer value and leaves no putter parked, and
\* after every put or get whose buffer write closed the channel (Reduced).
C11_CompletionOnce ==
  \A c \in ChanIds :
    has_buf(chans[c]) =>
      /\ chans[c].completions <= 1
      /\ chans[c].xform_is_completed <=> chans[c].completions = 1
      /\ (last.op = "close" /\ chans[c].puts = <<>>)
           => chans[c].completions = 1
      /\ (/\ last.op = "get" /\ last.active
          /\ last.pre.is_closed /\ last.pre.buf # <<>>
          /\ chans[c].puts = <<>>)
           => chans[c].completions = 1
      /\ (last.op \in {"put", "get"} /\ ~last.pre.is_closed /\ chans[c].is_closed)
           => chans[c].completions = 1

\* close was called again on a channel that a Reduced had closed and
\* completed.
C11_Witness ==
  /\ last.op = "close"
  /\ last.pre.xform = "take"
  /\ last.pre.is_closed /\ last.pre.completions = 1
  /\ chans[last.c].completions = 1

\* The elements of the tuples in a sequence of tuple values, in order.
RECURSIVE UnDigits(_)
UnDigits(n) == IF n = 0 THEN <<>> ELSE Append(UnDigits(n \div 10), n % 10)

RECURSIVE Flatten(_)
Flatten(vs) ==
  IF vs = <<>> THEN <<>> ELSE UnDigits(Head(vs) \div 10) \o Flatten(Tail(vs))

\* h was never cancelled (nor presented inactive).
Live(h) == act[hd[h].flag] \/ cmt[h] > 0

\* What the operation of handler h obtained: the value its call returned or
\* its callback was given (for a get that is still parked, FalseV).
Outcome(h) ==
  IF ret[h].tag = "tuple" THEN ret[h].val
  ELSE IF dlv[h] # <<>> THEN dlv[h][1] ELSE FalseV

\* C12: the completion arity runs only with closed true and puts empty.  A
\* close that finds active putters parked runs no completion and flushes
\* nothing; the get that moves the last of them into the buffer runs it.
\* With partition_all the elements received, buffered and retained are the
\* accepted values in put order, and nothing is retained after completion.
\* On chan(1, partition_all(2)) three puts, the third parked, a close and
\* then gets only (no further put) give (1, 2), then (3,), then None.
C12_CompletionAfterPendingPuts ==
  \A c \in ChanIds :
    LET ch == chans[c]
    IN /\ (last.op # "init" /\ ch.completions > last.pre.completions)
            => ch.is_closed /\ ch.puts = <<>>
       /\ (last.op = "close" /\ ActivePuttersBefore # <<>>)
            => /\ ch.completions = last.pre.completions
               /\ ch.xbuf = last.pre.xbuf
               /\ ch.buf = last.pre.buf
       /\ (/\ last.op = "get" /\ last.active
           /\ last.pre.is_closed /\ last.pre.buf # <<>>
           /\ ActivePuttersBefore # <<>> /\ ch.puts = <<>>)
            => ch.completions = 1
       /\ ch.xform = "partition_all"
            => /\ Flatten(rcv[c] \o ch.buf) \o ch.xbuf = AcceptedFrom(c, 1)
               /\ ch.xform_is_completed => ch.xbuf = <<>>
       /\ (/\ ch.xform = "partition_all" /\ ch.cap = 1 /\ ch.is_closed
           /\ nextH > 6
           /\ \A h \in 1..3 : hd[h].op = "put" /\ Accepted(h)
           /\ \A h \in Presented \ (1..3) : hd[h].op = "get" /\ Live(h))
            => /\ Outcome(4) = TupleOf(<<1, 2>>)
               /\ Outcome(5) = TupleOf(<<3>>)
               /\ Outcome(6) = NoneV

\* On chan(1, partition_all(2)), closed with the third put parked, the get
\* that took (1, 2) moved the put into the transducer and the completion
\* flushed (3,) into the buffer.
C12_Witness ==
  /\ last.op = "get" /\ last.active
  /\ last.pre.xform = "partition_all" /\ last.pre.cap = 1
  /\ last.pre.is_closed /\ last.pre.completions = 0
  /\ ActivePuttersBefore # <<>>
  /\ last.ret = RTuple(TupleOf(<<1, 2>>))
  /\ chans[last.c].completions = 1
  /\ chans[last.c].buf = <<TupleOf(<<3>>)>>

\* C13: when a buffer write of a put or of a get's refill produces a Reduced
\* (take's remaining reaches 0), whether or not the channel was closed
\* already, the channel is closed afterwards and puts is empty; of the active
\* putters parked before, those whose values the refill wrote observed True
\* and all the others False.  The values written stay receivable: what was
\* received and what the buffer holds are the accepted values in put order,
\* and a get on a non-empty buffer returns its oldest value.
C13_ReducedCloses ==
  \A c \in ChanIds :
    LET ch == chans[c]
        ps == ActivePuttersBefore
        written == IF last.op = "get" THEN last.pre.remaining ELSE 0
    IN /\ (/\ last.op \in {"put", "get"} /\ last.pre.xform = "take"
           /\ last.pre.remaining > 0 /\ ch.remaining = 0)
            => /\ ch.is_closed
               /\ ch.puts = <<>>
               /\ \A i \in DOMAIN ps :
                    /\ cmt[ps[i][1]] = 1
                    /\ dlv[ps[i][1]] = IF i <= written THEN <<TrueV>>
                                       ELSE <<FalseV>>
       /\ ch.xform = "take"
            => /\ rcv[c] \o ch.buf = AcceptedFrom(c, 1)
               /\ (ch.remaining = 0 /\ last.op # "init") => ch.is_closed
               /\ (last.op = "get" /\ last.active /\ last.pre.buf # <<>>)
                    => last.ret = RTuple(Head(last.pre.buf))

\* A get on a channel closed with two putters parked: the refill wrote the
\* first putter's value, which was the last take(2) lets through, and the
\* second putter observed False.
C13_Witness ==
  /\ last.op = "get" /\ last.active
  /\ last.pre.xform = "take" /\ last.pre.is_closed
  /\ Len(ActivePuttersBefore) = 2
  /\ dlv[ActivePuttersBefore[1][1]] = <<TrueV>>
  /\ dlv[ActivePuttersBefore[2][1]] = <<FalseV>>
  /\ chans[last.c].buf # <<>>

\* C14: on chan(buffer(1), take(2)) with three puts issued first, none of
\* them cancelled, the third put is never accepted; once three gets have been
\* made as well (and no close() came before the Reduced), the channel is
\* closed, the third put observed False and the gets obtained the first
\* value, the second value and None.
C14_TakeTwoOfThree ==
  \A c \in ChanIds :
    LET ch == chans[c]
    IN (/\ ch.xform = "take" /\ ch.cap = 1
        /\ nextH > 3
        /\ \A h \in 1..3 : hd[h].op = "put" /\ Live(h))
       => /\ ~Accepted(3)
          /\ (/\ nextH > 6
              /\ \A h \in 4..6 : hd[h].op = "get" /\ Live(h)
              /\ ch.is_closed => ch.remaining = 0)
               => /\ ch.is_closed
                  /\ Outcome(3) = FalseV
                  /\ Outcome(4) = PutVal(1)
                  /\ Outcome(5) = PutVal(2)
                  /\ Outcome(6) = NoneV
                  /\ rcv[c] = <<PutVal(1), PutVal(2)>>

\* Three puts and three gets on chan(buffer(1), take(2)): the third put was
\* parked and then rejected by the Reduced, the third get returned None.
C14_Witness ==
  /\ chans[1].xform = "take" /\ chans[1].cap = 1
  /\ \A h \in 1..3 : hd[h].op = "put"
  /\ dlv[2] = <<TrueV>> /\ dlv[3] = <<FalseV>>
  /\ last.op = "get" /\ last.h = 6 /\ last.ret = RTuple(NoneV)
  /\ ret[4] = RTuple(PutVal(1)) /\ ret[5] = RTuple(PutVal(2))

\* C15: a close that finds the channel open with no active putter parked
\* runs the completion: partition_all's retained values go into the buffer
\* as one last tuple, and a parked taker is given that tuple, not None.  On
\* chan(buffer(3), partition_all(2)) three puts, a close and gets only (no
\* further put) give (1, 2), then (3,), then None.
C15_CloseFlushes ==
  \A c \in ChanIds :
    LET ch == chans[c]
        ts == ActiveTakersBefore
    IN /\ (/\ last.op = "close" /\ ~last.pre.is_closed
           /\ last.pre.xform = "partition_all"
           /\ ActivePuttersBefore = <<>>)
            => /\ ch.completions = 1 /\ ch.xbuf = <<>>
               /\ IF last.pre.xbuf = <<>> THEN ch.buf = last.pre.buf
                  ELSE IF ts = <<>>
                  THEN ch.buf = Append(last.pre.buf, TupleOf(last.pre.xbuf))
                  ELSE /\ dlv[ts[1]] = <<TupleOf(last.pre.xbuf)>>
                       /\ ch.buf = <<>>
       /\ (/\ ch.xform = "partition_all" /\ ch.cap = 3 /\ ch.is_closed
           /\ nextH > 6
           /\ \A h \in 1..3 : hd[h].op = "put" /\ Accepted(h)
           /\ \A h \in Presented \ (1..3) : hd[h].op = "get" /\ Live(h))
            => /\ Outcome(4) = TupleOf(<<1, 2>>)
               /\ Outcome(5) = TupleOf(<<3>>)
               /\ Outcome(6) = NoneV
               /\ rcv[c] = <<TupleOf(<<1, 2>>), TupleOf(<<3>>)>>

\* Three puts on chan(buffer(3), partition_all(2)), then the close flushed
\* (3,) behind (1, 2), and three gets returned (1, 2), (3,) and None.
C15_Witness ==
  /\ chans[1].xform = "partition_all" /\ chans[1].cap = 3
  /\ \A h \in 1..3 : hd[h].op = "put" /\ ret[h] = RTuple(TrueV)
  /\ ret[4] = RTuple(TupleOf(<<1, 2>>))
  /\ ret[5] = RTuple(TupleOf(<<3>>))
  /\ last.op = "get" /\ last.h = 6 /\ last.ret = RTuple(NoneV)
  /\ last.pre.completions = 1

\* h parked when it was presented: its call returned None and it may block.
ParkedAtCall(h) == ret[h] = RNone /\ hd[h].blockable

\* C16: of two operations of one kind parked on one channel, the earlier
\* one, unless it was cancelled, has been served (committed, its callback
\* called) whenever the later one has; a parked taker that was given a value
\* is not preceded by one that was given None.
C16_ParkedServedInOrder ==
  \A p, q \in Presented :
    (/\ p < q
     /\ hd[p].ch = hd[q].ch /\ hd[p].op = hd[q].op
     /\ ParkedAtCall(p) /\ ParkedAtCall(q)
     /\ Live(p)
     /\ dlv[q] # <<>>)
    => /\ dlv[p] # <<>>
       /\ (hd[q].op = "get" /\ dlv[q] # <<NoneV>>) => dlv[p] # <<NoneV>>

\* C17: a get with an active handler on a fixed buffer that holds a value
\* returns the oldest value of the buffer, which is no parked putter's
\* value; after the pop the first active parked putters, as many as the
\* buffer has room for, are committed with True and their values appended
\* behind the buffer's remaining values; the other putters stay parked.
C17_BufferFirst ==
  (/\ last.op = "get" /\ last.active
   /\ last.pre.kind = "fixed" /\ last.pre.xform = "identity"
   /\ last.pre.buf # <<>>)
  => LET ps == ActivePuttersBefore
         room == last.pre.cap - (Len(last.pre.buf) - 1)
         k == IF Len(ps) < room THEN Len(ps) ELSE room
         ch == chans[last.c]
     IN /\ last.ret = RTuple(Head(last.pre.buf))
        /\ \A i \in DOMAIN ps : last.ret.val # ps[i][2]
        /\ ch.buf = Tail(last.pre.buf) \o PutterVals(SubSeq(ps, 1, k))
        /\ ch.puts = SubSeq(ps, k + 1, Len(ps))
        /\ Len(ch.buf) <= ch.cap
        /\ \A i \in DOMAIN ps :
             dlv[ps[i][1]] = IF i <= k THEN <<TrueV>> ELSE <<>>

\* A get on a full buffer with two putters parked took the oldest buffered
\* value; one putter's value moved into the buffer, the other stayed parked.
C17_Witness ==
  /\ last.op = "get" /\ last.active
  /\ last.pre.kind = "fixed" /\ buf_is_full(last.pre)
  /\ Len(ActivePuttersBefore) = 2
  /\ last.ret = RTuple(Head(last.pre.buf))
  /\ Len(chans[last.c].puts) = 1
  /\ dlv[ActivePuttersBefore[1][1]] = <<TrueV>>

\* C18: on a channel with a dropping, sliding or promise buffer no put is ever
\* parked: puts stays empty, and every put with an active handler on the open
\* channel, blockable or not, returns True from the call itself, however full
\* the buffer is and whether or not a getter exists; the buffer never holds
\* more than its capacity.
C18_UnblockingNeverParks ==
  \A c \in ChanIds :
    chans[c].kind \in {"dropping", "sliding", "promise"}
    => /\ chans[c].puts = <<>>
       /\ Len(chans[c].buf) <= chans[c].cap
       /\ (last.op = "put" /\ last.active /\ ~last.pre.is_closed)
            => /\ last.ret = RTuple(TrueV)
               /\ dlv[last.h] = <<>>

\* A blockable put on an unblocking buffer that already held as many values
\* as it can, with no getter ever presented, returned True.
C18_Witness ==
  /\ last.op = "put" /\ last.active /\ hd[last.h].blockable
  /\ last.pre.kind \in {"dropping", "sliding", "promise"}
  /\ ~last.pre.is_closed
  /\ Len(last.pre.buf) = last.pre.cap
  /\ \A h \in Presented : hd[h].op = "put"
  /\ last.ret = RTuple(TrueV)

\* C19: a non-blockable handler is never in puts or takes.  An offer or poll
\* (non-blockable, active) is committed by its own call, which returns a
\* tuple.  On an open channel offer returns True exactly when the buffer has
\* room or, unbuffered, an active taker is parked, and False otherwise; poll
\* returns a value exactly when the buffer is non-empty or, unbuffered, an
\* active putter is parked, and None otherwise.
C19_NonBlockableNeverParks ==
  /\ \A h \in Presented : ~hd[h].blockable => ~Parked(h)
  /\ (last.op \in {"put", "get"} /\ last.active /\ ~hd[last.h].blockable)
       => /\ last.ret.tag = "tuple"
          /\ cmt[last.h] = 1 /\ ~act[hd[last.h].flag]
          /\ dlv[last.h] = <<>>
  /\ (/\ last.op = "put" /\ last.active /\ ~hd[last.h].blockable
      /\ ~last.pre.is_closed)
       => /\ last.ret.val \in {TrueV, FalseV}
          /\ last.ret.val = TrueV
               <=> IF has_buf(last.pre) THEN ~buf_is_full(last.pre)
                   ELSE ActiveTakersBefore # <<>>
  /\ (last.op = "get" /\ last.active /\ ~hd[last.h].blockable)
       => (last.ret.val # NoneV
             <=> IF has_buf(last.pre) THEN last.pre.buf # <<>>
                 ELSE ActivePuttersBefore # <<>>)

\* An offer on a full buffer returned False and a poll on an unbuffered
\* channel without putters returned None; neither is parked.
C19_Witness ==
  \E p, g \in Presented :
    /\ hd[p].op = "put" /\ ~hd[p].blockable /\ ret[p] = RTuple(FalseV)
    /\ hd[g].op = "get" /\ ~hd[g].blockable /\ ret[g] = RTuple(NoneV)
    /\ ~chans[1].is_closed
    /\ last.op \in {"put", "get"} /\ ~hd[last.h].blockable /\ last.active
    /\ last.ret.val \in {FalseV, NoneV}

\* C20: a put or offer of None raises TypeError and touches nothing: the
\* channel (buffer, takes, puts with their cancelled entries, closed flag) is
\* as it was, open or closed; no flag changed, the handler is still active,
\* uncommitted and in no queue, and the call returned nothing.
C20_PutNoneRaises ==
  (last.op = "put" /\ last.val = NoneV)
  => /\ last.exc = "TypeError"
     /\ last.ret = RUnset
     /\ chans[last.c] = last.pre
     /\ act = [last.preact EXCEPT ![hd[last.h].flag] = last.active]
     /\ act[hd[last.h].flag]
     /\ cmt[last.h] = 0 /\ dlv[last.h] = <<>>
     /\ ~Parked(last.h)

\* None was put on a closed channel whose buffer held a value and whose
\* puts held a cancelled putter: the put pruned nothing.
C20_Witness ==
  /\ last.op = "put" /\ last.val = NoneV /\ last.exc = "TypeError"
  /\ last.pre.is_closed /\ last.pre.buf # <<>>
  /\ last.pre.puts # <<>> /\ ActivePuttersBefore = <<>>
  /\ chans[last.c].puts = last.pre.puts

\* C21: no channel exists that was constructed with an xform but no buffer,
\* or with an ex_handler but no xform: such a construction raises TypeError.
C21_ConstructorRejects ==
  \A c \in ChanIds :
    /\ ~(chans[c].kind = "none" /\ chans[c].xform # "identity")
    /\ ~(chans[c].ex_handler # "nop" /\ chans[c].xform = "identity")

\* C22: puts and takes never hold more than MAX_QUEUE_SIZE entries.  A
\* blockable operation that finds no counterparty and MAX_QUEUE_SIZE active
\* entries in its queue raises MaxQueueSize; after a MaxQueueSize the queues
\* are as before (but for pruned entries), no flag changed, and the handler
\* is uncommitted and in no queue.
C22_QueueBound ==
  \A c \in ChanIds :
    LET ch == chans[c]
    IN /\ Len(ch.puts) <= MAX_QUEUE_SIZE
       /\ Len(ch.takes) <= MAX_QUEUE_SIZE
       /\ (/\ last.op = "put" /\ hd[last.h].blockable /\ ~last.pre.is_closed
           /\ Len(ActivePuttersBefore) >= MAX_QUEUE_SIZE)
            => last.exc = "MaxQueueSize"
       /\ (/\ last.op = "get" /\ hd[last.h].blockable /\ ~last.pre.is_closed
           /\ Len(ActiveTakersBefore) >= MAX_QUEUE_SIZE)
            => last.exc = "MaxQueueSize"
       /\ last.exc = "MaxQueueSize"
            => /\ ch.puts = ActivePuttersBefore
               /\ ch.takes = ActiveTakersBefore
               /\ ch.buf = last.pre.buf
               /\ act = last.preact
               /\ last.ret = RUnset
               /\ cmt[last.h] = 0 /\ dlv[last.h] = <<>>
               /\ ~Parked(last.h)

\* A put found MAX_QUEUE_SIZE putters parked and raised MaxQueueSize.
C22_Witness ==
  /\ last.op = "put" /\ last.exc = "MaxQueueSize"
  /\ Len(last.pre.puts) = MAX_QUEUE_SIZE
  /\ Len(chans[last.c].puts) = MAX_QUEUE_SIZE

\* What reaches the buffer for the input v of a channel whose ex_handler
\* recovers: f(v), or what the handler returned when the transducer raised.
ExOut(ch, v) ==
  IF MapFails(v)
  THEN IF ch.ex_handler = "value" THEN <<RecoveryVal>> ELSE <<>>
  ELSE <<MapF(v)>>

RECURSIVE ExOutSeq(_, _)
ExOutSeq(ch, vs) ==
  IF vs = <<>> THEN <<>> ELSE ExOut(ch, Head(vs)) \o ExOutSeq(ch, Tail(vs))

\* C23: with an ex_handler that returns, the values received and buffered
\* are, in put order, f(v) for the accepted inputs on which the transducer
\* works, the handler's value (as returned, not transformed) in the place of
\* each input on which it raises, or nothing there when the handler returns
\* None; no call raises, and a put that finds room returns (True,) whatever
\* its input and whatever failed before.
C23_Recovery ==
  \A c \in ChanIds :
    chans[c].ex_handler \in {"value", "null"}
      => /\ rcv[c] \o chans[c].buf = ExOutSeq(chans[c], AcceptedFrom(c, 1))
         /\ last.exc = ""
         /\ (/\ last.op = "put" /\ last.active /\ ~last.pre.is_closed
             /\ ~buf_is_full(last.pre))
              => last.ret = RTuple(TrueV)

\* The handler's value stands in the buffer where the failing input was put,
\* before the transformed value of the put that was just accepted.
C23_Witness ==
  \E c \in ChanIds :
    /\ chans[c].ex_handler = "value"
    /\ Len(chans[c].buf) = 2
    /\ chans[c].buf[1] = RecoveryVal
    /\ last.op = "put" /\ ~MapFails(last.val) /\ last.ret = RTuple(TrueV)
    /\ chans[c].buf[2] = MapF(last.val)
    /\ \E h \in Presented : MapFails(hd[h].val) /\ ret[h] = RTuple(TrueV)

\* C24: an exception is raised only out of the put that supplied the value
\* on which the transducer failed, never out of a get or another put.
C24_ExceptionOnlyFromOwnPut ==
  last.exc # "" => last.op = "put" /\ MapFails(last.val)

\* C25: when the transducer turns the input of a put into None, the put (made
\* with an active handler on the open channel with room in the buffer) raises;
\* None is never in the buffer, and a get returns (None,) only as a poll or on
\* a closed and drained channel.
C25_NullOutputFailsPut ==
  \A c \in ChanIds :
    /\ \A i \in DOMAIN chans[c].buf : chans[c].buf[i] # NoneV
    /\ (/\ last.op = "get" /\ last.c = c /\ last.ret = RTuple(NoneV))
         => \/ ~hd[last.h].blockable
            \/ chans[c].is_closed /\ buf_len(last.pre) = 0
    /\ (/\ last.op = "put" /\ last.c = c /\ last.active
        /\ chans[c].xform = "map_none" /\ MapFails(last.val)
        /\ ~last.pre.is_closed /\ ~buf_is_full(last.pre))
         => last.exc # ""

\* The gets on channel c that obtained the value v.
GettersOf(c, v) ==
  {g \in Presented : hd[g].op = "get" /\ hd[g].ch = c /\ Outcome(g) = v}

\* C26: on an unbuffered channel a put is accepted exactly when one get, and
\* only one, has obtained its value; a blockable get obtains a value only
\* from an accepted put and None only from the closed channel; a put (get)
\* that completes in its call does so together with one taker (putter) that
\* was parked and active, whose callback gets the value (True); a blockable
\* put or get that finds the open channel without an active counterparty
\* parks uncommitted; no callback is called before the commit.
C26_Rendezvous ==
  \A c \in ChanIds :
    chans[c].kind = "none"
      => /\ \A h \in Presented :
              (hd[h].op = "put" /\ hd[h].ch = c)
                => /\ Cardinality(GettersOf(c, hd[h].val)) <= 1
                   /\ Accepted(h) <=> GettersOf(c, hd[h].val) # {}
         /\ \A g \in Presented :
              (hd[g].op = "get" /\ hd[g].ch = c /\ hd[g].blockable)
                => /\ Outcome(g) = NoneV => chans[c].is_closed
                   /\ Outcome(g) \notin {NoneV, FalseV}
                        => \E h \in Presented :
                             /\ hd[h].op = "put" /\ hd[h].ch = c
                             /\ hd[h].val = Outcome(g) /\ Accepted(h)
         /\ \A h \in Presented : cmt[h] = 0 => dlv[h] = <<>>
         /\ (last.op = "put" /\ last.ret = RTuple(TrueV))
              => /\ cmt[last.h] = 1
                 /\ \E i \in DOMAIN last.pre.takes :
                      LET g == last.pre.takes[i]
                      IN WasActive(g) /\ cmt[g] = 1 /\ dlv[g] = <<last.val>>
         /\ (last.op = "get" /\ last.ret.tag = "tuple" /\ last.ret.val # NoneV)
              => /\ cmt[last.h] = 1
                 /\ \E i \in DOMAIN last.pre.puts :
                      LET p == last.pre.puts[i]
                      IN /\ WasActive(p[1]) /\ p[2] = last.ret.val
                         /\ cmt[p[1]] = 1 /\ dlv[p[1]] = <<TrueV>>
         /\ (/\ last.op = "put" /\ hd[last.h].blockable /\ last.active
             /\ ~last.pre.is_closed /\ ActiveTakersBefore = <<>>)
              => last.ret = RNone /\ cmt[last.h] = 0 /\ Parked(last.h)
         /\ (/\ last.op = "get" /\ hd[last.h].blockable /\ last.active
             /\ ~last.pre.is_closed /\ ActivePuttersBefore = <<>>)
              => last.ret = RNone /\ cmt[last.h] = 0 /\ Parked(last.h)

\* A put that had parked on the open unbuffered channel is committed by the
\* get that returns its value.
C26_Witness ==
  /\ last.op = "get" /\ last.ret.tag = "tuple"
  /\ chans[last.c].kind = "none" /\ ~chans[last.c].is_closed
  /\ \E h \in Presented :
       /\ hd[h].op = "put" /\ ParkedAtCall(h)
       /\ hd[h].val = last.ret.val /\ dlv[h] = <<TrueV>>
       /\ last.pre.puts # <<>> /\ last.pre.puts[1][1] = h

\* The call of kind op that finds the channel as ch (the flags as active) can
\* complete at once: the channel is closed, or (get) a value is buffered or
\* an active putter is parked, (put) the buffer has room or, without a
\* buffer, an active taker is parked.
CanComplete(ch, op, active) ==
  \/ ch.is_closed
  \/ /\ op = "get"
     /\ \/ has_buf(ch) /\ buf_len(ch) > 0
        \/ \E i \in DOMAIN ch.puts : active[hd[ch.puts[i][1]].flag]
  \/ /\ op = "put"
     /\ \/ has_buf(ch) /\ ~buf_is_full(ch)
        \/ ~has_buf(ch) /\ \E i \in DOMAIN ch.takes : active[hd[ch.takes[i]].flag]

\* C27: an alt with a default parks none of its handlers; the op it presents
\* to a channel on which it cannot complete at once does not become its
\* result (the alt goes on to its next op or to the default); an op that can
\* complete becomes its result; after the default branch its flag is
\* inactive.
C27_DefaultNeverParks ==
  /\ \A h \in Presented : (hd[h].alt # 0 /\ alts[hd[h].alt].dflt) => ~Parked(h)
  /\ \A a \in AltIds :
       (alts[a].dflt /\ alts[a].state = "returned"
          /\ alts[a].result[2] = DefaultCh)
         => ~act[AltFlag(a)] /\ alts[a].result[1] = DefaultVal
  /\ (/\ last.op \in {"put", "get"}
      /\ hd[last.h].alt # 0
      /\ alts[hd[last.h].alt].dflt)
       => LET a == hd[last.h].alt
          IN IF CanComplete(last.pre, last.op, last.preact)
             THEN alts[a].state = "returned" /\ alts[a].result[2] = last.c
             ELSE ~(alts[a].state = "returned" /\ alts[a].result[2] = last.c)

\* The handlers alt a has presented, in the order it made them.
RECURSIVE AltPresented(_, _)
AltPresented(a, h) ==
  IF h >= nextH THEN <<>>
  ELSE (IF hd[h].alt = a THEN <<h>> ELSE <<>>) \o AltPresented(a, h + 1)

\* C28: an alt (priority=True) presents its ops in list order, each after the
\* one before returned None; it returns with the first call that returns a
\* tuple, that op's (val, ch), and presents nothing after it.  An op that can
\* complete when it is presented with the alt's flag active returns a tuple
\* and commits: of several ops that can complete, the first in the list wins.
C28_PriorityOrder ==
  /\ \A a \in AltIds :
       LET hs == AltPresented(a, 1)
           k == Len(hs)
       IN /\ k <= Len(alts[a].ops)
          /\ \A i \in 1..k : /\ hd[hs[i]].op = alts[a].ops[i].kind
                             /\ hd[hs[i]].ch = alts[a].ops[i].ch
          /\ \A i \in 1..(k - 1) : ret[hs[i]] = RNone
          /\ alts[a].state = "running" => k = alts[a].pc - 1
          /\ alts[a].state = "returned"
               => /\ k >= 1 /\ ret[hs[k]].tag = "tuple"
                  /\ alts[a].result = <<ret[hs[k]].val, hd[hs[k]].ch>>
  /\ (/\ last.op \in {"put", "get"}
      /\ hd[last.h].alt # 0
      /\ last.active
      /\ CanComplete(last.pre, last.op, last.preact))
       => LET a == hd[last.h].alt
          IN /\ last.ret.tag = "tuple" /\ cmt[last.h] = 1
             /\ alts[a].state = "returned" /\ alts[a].result[2] = last.c

\* An alt returned with its first op while its second op could complete too.
C28_Witness ==
  /\ last.op \in {"put", "get"}
  /\ hd[last.h].alt # 0
  /\ LET a == hd[last.h].alt
         o == alts[a].ops[2]
     IN /\ alts[a].state = "returned"
        /\ AltPresented(a, 1) = <<last.h>>
        /\ alts[a].result[2] = alts[a].ops[1].ch
        /\ ~chans[o.ch].is_closed
        /\ CanComplete(chans[o.ch], o.kind, act)

\* The value v is in the buffer of a channel or was obtained by a get.
Transferred(v) ==
  \/ \E c \in ChanIds : \E i \in DOMAIN chans[c].buf : chans[c].buf[i] = v
  \/ \E g \in Presented : hd[g].op = "get" /\ Outcome(g) = v

\* C29: an op of an alt that did not commit has no effect, whenever it is
\* presented or inspected: the value of such a put is in no buffer and was
\* obtained by no get, such a get obtained no value and its callback was not
\* called; and the call that presents a sibling whose flag is already
\* inactive leaves the channel's buffer and its active parked operations as
\* they were, so that these are served by later operations.
C29_SiblingsWithoutEffect ==
  /\ \A h \in Presented :
       (hd[h].alt # 0 /\ cmt[h] = 0)
         => /\ dlv[h] = <<>>
            /\ hd[h].op = "put" => ~Transferred(hd[h].val)
            /\ hd[h].op = "get" => ~(ret[h].tag = "tuple" /\ ret[h].val # NoneV)
  /\ (/\ last.op \in {"put", "get"}
      /\ hd[last.h].alt # 0
      /\ ~last.active)
       => /\ chans[last.c].buf = last.pre.buf
          /\ IsPrefix(ActivePuttersBefore, chans[last.c].puts)
          /\ IsPrefix(ActiveTakersBefore, chans[last.c].takes)

\* The flag f was committed by one of its handlers.
FlagCommitted(f) == \E h \in Presented : hd[h].flag = f /\ cmt[h] > 0

\* The operation of handler h parked and was cancelled before it committed.
Cancelled(h) ==
  /\ hd[h].op # "none"
  /\ ret[h] = RNone
  /\ ~act[hd[h].flag]
  /\ ~FlagCommitted(hd[h].flag)

\* C30: a parked get, put or alt op that was cancelled before a counterparty
\* arrived is never committed, its callback is never called and the value of
\* such a put reaches no buffer and no get; on the unbuffered channel an
\* offer that finds only cancelled takers returns False and a poll that finds
\* only cancelled putters returns None, and the cancelled entries are gone
\* afterwards.  An operation that parked and was committed has got its one
\* result (True for a put, an accepted put's value for a get), also after it
\* is cancelled.
C30_Cancellation ==
  /\ \A h \in Presented :
       Cancelled(h)
         => /\ cmt[h] = 0 /\ dlv[h] = <<>>
            /\ hd[h].op = "put" => ~Transferred(hd[h].val)
            /\ hd[h].alt # 0 => alts[hd[h].alt].state = "parked"
  /\ (/\ last.op = "put" /\ ~hd[last.h].blockable /\ ~has_buf(last.pre)
      /\ last.pre.takes # <<>> /\ ActiveTakersBefore = <<>>)
       => last.ret = RTuple(FalseV) /\ chans[last.c].takes = <<>>
  /\ (/\ last.op = "get" /\ ~hd[last.h].blockable /\ ~has_buf(last.pre)
      /\ last.pre.puts # <<>> /\ ActivePuttersBefore = <<>>)
       => last.ret = RTuple(NoneV) /\ chans[last.c].puts = <<>>
  /\ \A h \in Presented :
       (ret[h] = RNone /\ cmt[h] > 0)
         => /\ cmt[h] = 1 /\ Len(dlv[h]) = 1
            /\ hd[h].op = "put" => dlv[h] = <<TrueV>>
            /\ hd[h].op = "get"
                 => \E p \in Presented : Accepted(p) /\ hd[p].val = dlv[h][1]

\* An offer finds the parked, cancelled get of the alt and returns False.
C30_Witness ==
  /\ last.op = "put" /\ ~hd[last.h].blockable /\ ~has_buf(last.pre)
  /\ last.ret = RTuple(FalseV)
  /\ \E i \in DOMAIN last.pre.takes :
       hd[last.pre.takes[i]].alt # 0 /\ Cancelled(last.pre.takes[i])

\* The value v has entered channel c: it is buffered, retained by the
\* transducer or was received (alone or as an element of a tuple).
Entered(c, v) ==
  LET vs == Flatten(rcv[c] \o chans[c].buf) \o chans[c].xbuf
  IN \E i \in DOMAIN vs : vs[i] = v

\* C31: the transducer has seen exactly the values of the puts that were
\* committed with True, in put order: take's count is TakeN less their
\* number and what was received, is buffered or retained are their values.  A
\* put that parks, and the cancellation of a parked put, leave the buffer,
\* the transducer state and the closed flag as they were; the value of a put
\* that is parked, was cancelled or was presented inactive has not entered
\* the channel.
C31_FedOnCommit ==
  \A c \in ChanIds :
    LET ch == chans[c]
        acc == AcceptedFrom(c, 1)
    IN /\ \A i \in DOMAIN acc : \E h \in Presented : hd[h].val = acc[i] /\ cmt[h] = 1
       /\ ch.xform = "take"
            => /\ ch.remaining = TakeN - Len(acc)
               /\ rcv[c] \o ch.buf = acc
       /\ ch.xform = "partition_all"
            => Flatten(rcv[c] \o ch.buf) \o ch.xbuf = acc
       /\ \A h \in Presented :
            (hd[h].op = "put" /\ hd[h].ch = c /\ ~Accepted(h))
              => ~Entered(c, hd[h].val)
       /\ (\/ last.op = "cancel"
           \/ last.op = "put" /\ last.ret \in {RNone, RBool(FalseV)})
            => /\ ch.buf = last.pre.buf
               /\ ch.xbuf = last.pre.xbuf
               /\ ch.remaining = last.pre.remaining
               /\ ch.is_closed = last.pre.is_closed
               /\ ch.completions = last.pre.completions

\* On chan(1, take(2)) a put parked behind the first value and was
\* cancelled; the put that follows is accepted as the second of the two.
C31_Witness ==
  /\ last.op = "put" /\ last.active /\ last.ret = RTuple(TrueV)
  /\ last.pre.xform = "take" /\ last.pre.remaining = 1
  /\ chans[last.c].remaining = 0 /\ chans[last.c].is_closed
  /\ \E h \in Presented :
       /\ hd[h].op = "put" /\ h < last.h
       /\ Cancelled(h) /\ hd[h].blockable
       /\ \E g \in Presented : g < h /\ Accepted(g)

\* C32: on an unbuffered channel takes and puts are never both non-empty,
\* cancelled entries that are not yet pruned included.
C32_OneQueueEmpty ==
  \A c \in ChanIds :
    chans[c].kind = "none" => chans[c].takes = <<>> \/ chans[c].puts = <<>>

\* A put found only cancelled takers on the unbuffered channel and parked.
C32_Witness ==
  /\ last.op = "put"
  /\ last.pre.kind = "none"
  /\ last.pre.takes # <<>>
  /\ Parked(last.h)
  /\ chans[last.c].takes = <<>>

\* C33: on a buffered channel takes is non-empty only when the buffer is
\* empty, after every put, get and close, whether it returned or raised.
C33_TakersOnlyOnEmptyBuffer ==
  \A c \in ChanIds :
    has_buf(chans[c]) => chans[c].takes = <<>> \/ buf_len(chans[c]) = 0

\* C34: on a channel with a fixed buffer puts is non-empty only when the
\* buffer is full, after every put, get, close and cancellation.
C34_PuttersOnlyOnFullBuffer ==
  \A c \in ChanIds :
    chans[c].kind = "fixed" => chans[c].puts = <<>> \/ buf_is_full(chans[c])

\* ============================================================ lock level
\* The same code at the granularity of its locks.  A thread is inside one
\* call at a time.  It stops only where it acquires a lock (the channel's
\* "with self._lock", a handler's "with handler:", the two acquisitions of
\* acquire_handlers); what it does between two acquisitions is one step,
\* because it touches only state whose locks it holds.  A handler's lock is
\* the lock of its flag and its lock_id is the number of that flag, so the
\* handlers of one alt share one lock.  thr[t].pc names the source line of
\* the acquisition thread t is waiting at.
LkChans == {1, 2}
LkThreads == 1..4
LkOpsPerThread == 2
LkHandlerIds == 1..(4 * LkOpsPerThread)
LkAltFlag(t) == 4 * LkOpsPerThread + t
LkFlagIds == LkHandlerIds \cup {LkAltFlag(t) : t \in LkThreads}

\* The handler of the i-th operation of thread t.
LkHandlerOf(t, i) == LkOpsPerThread * (t - 1) + i

lock_id(w, h) == w.hd[h].flag

\* The programs: threads 1 and 2 each run an alt without default, thread 3
\* puts and then gets on channel 1 without waiting for the results (f_put,
\* f_get), thread 4 gets on channel 1 and closes channel 2.
LkPrograms ==
  << [alt |-> TRUE, ops |-> <<AltOp("put", 1), AltOp("get", 2)>>],
     [alt |-> TRUE, ops |-> <<AltOp("put", 1), AltOp("put", 2)>>],
     [alt |-> FALSE, ops |-> <<AltOp("put", 1), AltOp("get", 1)>>],
     [alt |-> FALSE, ops |-> <<AltOp("get", 1), AltOp("close", 2)>> ] >>

\* The line at which a call of the given kind takes the channel's lock.
LkEntry(kind) ==
  CASE kind = "put" -> "L109" [] kind = "get" -> "L145" [] kind = "close" -> "L102"

\* Thread t about to make its i-th call.
LkFrame(t, i) ==
  LET o == LkPrograms[t].ops[i]
  IN [t |-> t, i |-> i, pc |-> LkEntry(o.kind), c |-> o.ch,
      h |-> LkHandlerOf(t, i), val |-> PutVal(LkHandlerOf(t, i)),
      cur |-> 0, cval |-> NoneV, putter |-> 0, j |-> 0, k |-> <<>>,
      retv |-> NoneV, chl |-> 0, locks |-> <<>>]

LkDone(fr) == [fr EXCEPT !.pc = "done"]

\* The state a step works on: the world of the channel, the thread's frame,
\* what the calls returned, and what the step has read and called so far.
LkMachine(t) ==
  [w |-> World(thr[t].c), fr |-> thr[t], ret |-> ret, ev |-> {}]

\* A read of h.is_active, with whether the reader holds h's lock.
lk_read(m, h) ==
  [m EXCEPT !.ev = @ \cup {[kind |-> "read", h |-> h,
                            hlocked |-> \E n \in DOMAIN m.fr.locks :
                                           m.fr.locks[n] = lock_id(m.w, h),
                            chlocked |-> m.fr.chl # 0]}]

\* h.commit(), with whether h was active when it was called.
lk_commit(m, h) ==
  [m EXCEPT !.w = commit(m.w, h),
            !.ev = @ \cup {[kind |-> "commit", h |-> h,
                            hlocked |-> \E n \in DOMAIN m.fr.locks :
                                           m.fr.locks[n] = lock_id(m.w, h),
                            chlocked |-> m.fr.chl # 0,
                            active |-> is_active(m.w, h)]}]

\* commit()(v) on h: the commit, then the delivery callback called with v,
\* with the locks the caller holds at that moment.
lk_commit_deliver(m, h, v) ==
  LET m1 == lk_commit(m, h)
  IN [m1 EXCEPT !.w = deliver(m1.w, h, v),
                !.ev = @ \cup {[kind |-> "callback", h |-> h,
                                hlocked |-> \E n \in DOMAIN m.fr.locks :
                                               m.fr.locks[n] = lock_id(m.w, h),
                                chlocked |-> m.fr.chl # 0]}]

lk_acquire(m, f) == [m EXCEPT !.fr.locks = Append(@, f)]

lk_release(m, f) ==
  LET Other(g) == g # f IN [m EXCEPT !.fr.locks = SelectSeq(@, Other)]

\* The call returns r (or raises when the world carries an exception):
\* every "with" block is left, the thread goes on to its next call; an alt
\* makes no further call once one has returned a committed tuple.
lk_exit(m, r) ==
  LET t == m.fr.t
      prog == LkPrograms[t]
      more == /\ m.fr.i < Len(prog.ops)
              /\ ~(prog.alt /\ r.tag = "tuple")
      o == prog.ops[m.fr.i]
      w1 == IF o.kind = "get" /\ r.tag = "tuple" /\ r.val # NoneV
            THEN [m.w EXCEPT !.rcv = Append(@, r.val)] ELSE m.w
  IN [m EXCEPT !.w = [w1 EXCEPT !.exc = ""],
               !.ret = IF o.kind = "close" THEN @
                       ELSE [@ EXCEPT ![m.fr.h] = r],
               !.fr = IF more THEN LkFrame(t, m.fr.i + 1)
                      ELSE LkDone(LkFrame(t, m.fr.i))]

lk_raise(m) == lk_exit(m, RUnset)

\* Chan._cleanup: is_active of every parked handler is read.
RECURSIVE lk_read_all(_, _)
lk_read_all(m, hs) ==
  IF hs = <<>> THEN m ELSE lk_read_all(lk_read(m, Head(hs)), Tail(hs))

lk_cleanup(m) ==
  LET putters == [n \in DOMAIN m.w.ch.puts |-> m.w.ch.puts[n][1]]
      m1 == lk_read_all(lk_read_all(m, m.w.ch.takes), putters)
  IN [m1 EXCEPT !.w = _cleanup(m.w)]

RECURSIVE lk_return(_)

\* Chan._fail_op up to "with handler:".
lk_fail_op(m, val) == [m EXCEPT !.fr.pc = "L192", !.fr.retv = val]

\* Chan._distribute_buf_vals up to "with taker:".
lk_distribute_buf_vals(m) ==
  IF Len(m.w.ch.takes) > 0 /\ buf_len(m.w.ch) > 0
  THEN [m EXCEPT !.w.ch.takes = Tail(@), !.fr.cur = Head(m.w.ch.takes),
                 !.fr.pc = "L211"]
  ELSE lk_return(m)

\* "for taker in self._takes" of _close up to "with taker:".
lk_close_takers(m) ==
  IF m.fr.j <= Len(m.w.ch.takes)
  THEN [m EXCEPT !.fr.cur = m.w.ch.takes[m.fr.j], !.fr.pc = "L234"]
  ELSE lk_return([m EXCEPT !.w.ch.takes = <<>>])

\* Chan._close; the caller has pushed where it returns to.
lk_close(m) ==
  LET m1 == [m EXCEPT !.w.ch.is_closed = TRUE]
  IN IF has_buf(m1.w.ch)
     THEN lk_distribute_buf_vals(
            [m1 EXCEPT !.w = _complete_xform_if_ready(m1.w),
                       !.fr.k = <<"L229">> \o @])
     ELSE lk_close_takers([m1 EXCEPT !.fr.j = 1])

\* "for putter, _ in self._puts" of _buf_put up to "with putter:".
lk_reject_putters(m) ==
  IF m.fr.j <= Len(m.w.ch.puts)
  THEN [m EXCEPT !.fr.cur = m.w.ch.puts[m.fr.j][1], !.fr.pc = "L202"]
  ELSE lk_close([m EXCEPT !.w.ch.puts = <<>>, !.fr.k = <<"L206">> \o @])

\* Chan._buf_put(val); the caller has pushed where it returns to.
lk_buf_put(m, val) ==
  LET r == buf_rf_step(m.w, val)
      m1 == [m EXCEPT !.w = r.w]
  IN IF r.w.exc # "" THEN lk_raise(m1)
     ELSE IF r.reduced THEN lk_reject_putters([m1 EXCEPT !.fr.j = 1])
     ELSE lk_return(m1)

\* The refill loop of _get (lines 158-163) up to "with putter:", then
\* lines 165-166.
lk_refill(m) ==
  IF Len(m.w.ch.puts) > 0 /\ ~buf_is_full(m.w.ch)
  THEN [m EXCEPT !.w.ch.puts = Tail(@), !.fr.putter = Head(m.w.ch.puts)[1],
                 !.fr.cval = Head(m.w.ch.puts)[2], !.fr.pc = "L160"]
  ELSE lk_exit([m EXCEPT !.w = _complete_xform_if_ready(m.w)],
               RTuple(m.fr.retv))

\* A call that was made inside the call comes back to the line after it.
lk_return(m) ==
  LET to == Head(m.fr.k)
      m1 == [m EXCEPT !.fr.k = Tail(@)]
  IN CASE to = "L123" ->
            lk_distribute_buf_vals([m1 EXCEPT !.fr.k = <<"L124">> \o @])
       [] to = "L124" -> lk_exit(m1, RTuple(TrueV))
       [] to = "L163" -> lk_refill(lk_release(m1, lock_id(m1.w, m1.fr.putter)))
       [] to = "L206" -> lk_return(m1)
       [] to = "L229" -> lk_close_takers([m1 EXCEPT !.fr.j = 1])
       [] to = "L104" -> lk_exit(m1, RNone)

\* Lines 136-142 of _put.
lk_put_park(m) ==
  IF ~is_blockable(m.w, m.fr.h) THEN lk_fail_op(m, FalseV)
  ELSE IF Len(m.w.ch.puts) >= MAX_QUEUE_SIZE
  THEN lk_raise([m EXCEPT !.w.exc = "MaxQueueSize"])
  ELSE lk_exit([m EXCEPT !.w.ch.puts = Append(@, <<m.fr.h, m.fr.val>>)], RNone)

\* The hand-off loop of _put (lines 128-129) up to acquire_handlers.
lk_put_scan(m) ==
  IF Len(m.w.ch.takes) > 0
  THEN [m EXCEPT !.w.ch.takes = Tail(@), !.fr.cur = Head(m.w.ch.takes),
                 !.fr.pc = "L130a"]
  ELSE lk_put_park(m)

\* Lines 178-184 of _get.
lk_get_park(m) ==
  IF m.w.ch.is_closed \/ ~is_blockable(m.w, m.fr.h) THEN lk_fail_op(m, NoneV)
  ELSE IF Len(m.w.ch.takes) >= MAX_QUEUE_SIZE
  THEN lk_raise([m EXCEPT !.w.exc = "MaxQueueSize"])
  ELSE lk_exit([m EXCEPT !.w.ch.takes = Append(@, m.fr.h)], RNone)

\* The hand-off loop of _get (lines 170-171) up to acquire_handlers.
lk_get_scan(m) ==
  IF Len(m.w.ch.puts) > 0
  THEN [m EXCEPT !.w.ch.puts = Tail(@), !.fr.cur = Head(m.w.ch.puts)[1],
                 !.fr.cval = Head(m.w.ch.puts)[2], !.fr.pc = "L172a"]
  ELSE lk_get_park(m)

\* _put from line 110, the channel's lock held, up to its first handler lock.
lk_put(m0) ==
  LET m == lk_cleanup(m0)
  IN IF m.w.ch.is_closed THEN lk_fail_op(m, FalseV)
     ELSE IF has_buf(m.w.ch) /\ ~buf_is_full(m.w.ch)
     THEN [m EXCEPT !.fr.pc = "L117"]
     ELSE IF ~has_buf(m.w.ch) THEN lk_put_scan(m)
     ELSE lk_put_park(m)

\* _get from line 146, the channel's lock held, up to its first handler lock.
lk_get(m0) ==
  LET m == lk_cleanup(m0)
  IN IF has_buf(m.w.ch) /\ buf_len(m.w.ch) > 0
     THEN [m EXCEPT !.fr.pc = "L150"]
     ELSE IF ~has_buf(m.w.ch) THEN lk_get_scan(m)
     ELSE lk_get_park(m)

\* The lock a thread waits for at its pc: a channel ("ch") or a flag ("fl").
LkLower(w, a, b) == IF lock_id(w, a) <= lock_id(w, b) THEN lock_id(w, a) ELSE lock_id(w, b)
LkHigher(w, a, b) == IF lock_id(w, a) <= lock_id(w, b) THEN lock_id(w, b) ELSE lock_id(w, a)

LkWanted(w, fr) ==
  CASE fr.pc \in {"L102", "L109", "L145"} -> [kind |-> "ch", id |-> fr.c]
    [] fr.pc \in {"L117", "L150", "L192"} -> [kind |-> "fl", id |-> lock_id(w, fr.h)]
    [] fr.pc = "L160" -> [kind |-> "fl", id |-> lock_id(w, fr.putter)]
    [] fr.pc \in {"L202", "L211", "L234"} -> [kind |-> "fl", id |-> lock_id(w, fr.cur)]
    [] fr.pc \in {"L130a", "L172a"} -> [kind |-> "fl", id |-> LkLower(w, fr.h, fr.cur)]
    [] fr.pc \in {"L130b", "L172b"} -> [kind |-> "fl", id |-> LkHigher(w, fr.h, fr.cur)]
    [] OTHER -> [kind |-> "none", id |-> 0]

\* The thread that holds a lock (0: it is free).
LkHolds(t, l) ==
  IF l.kind = "ch" THEN thr[t].chl = l.id
  ELSE \E n \in DOMAIN thr[t].locks : thr[t].locks[n] = l.id

LkFree(l) == \A t \in DOMAIN thr : ~LkHolds(t, l)

\* What the thread does once it has the lock it waited for at pc, up to its
\* next acquisition.
lk_after(m) ==
  LET pc == m.fr.pc
      h == m.fr.h
      cur == m.fr.cur
  IN CASE pc = "L102" ->
            lk_close([lk_cleanup([m EXCEPT !.fr.chl = m.fr.c])
                        EXCEPT !.fr.k = <<"L104">> \o @])
       [] pc = "L109" -> lk_put([m EXCEPT !.fr.chl = m.fr.c])
       [] pc = "L145" -> lk_get([m EXCEPT !.fr.chl = m.fr.c])
       [] pc = "L117" ->
            LET m1 == lk_read(lk_acquire(m, lock_id(m.w, h)), h)
            IN IF ~is_active(m.w, h)
               THEN lk_exit(lk_release(m1, lock_id(m.w, h)), RBool(FalseV))
               ELSE lk_buf_put(
                      [lk_release(lk_commit(m1, h),
                                  lock_id(m.w, h))
                         EXCEPT !.fr.k = <<"L123">> \o @],
                      m.fr.val)
       [] pc = "L150" ->
            LET m1 == lk_read(lk_acquire(m, lock_id(m.w, h)), h)
            IN IF ~is_active(m.w, h)
               THEN lk_exit(lk_release(m1, lock_id(m.w, h)), RTuple(NoneV))
               ELSE lk_refill(
                      [lk_release(lk_commit(m1, h),
                                  lock_id(m.w, h))
                         EXCEPT !.fr.retv = buf_get_val(m.w.ch),
                                !.w.ch = buf_get_rest(m.w.ch)])
       [] pc = "L160" ->
            LET p == m.fr.putter
                m1 == lk_read(lk_acquire(m, lock_id(m.w, p)), p)
            IN IF is_active(m.w, p)
               THEN lk_buf_put(
                      [lk_commit_deliver(m1, p, TrueV)
                         EXCEPT !.fr.k = <<"L163">> \o @],
                      m.fr.cval)
               ELSE lk_refill(lk_release(m1, lock_id(m.w, p)))
       [] pc = "L192" ->
            LET m1 == lk_read(lk_acquire(m, lock_id(m.w, h)), h)
            IN IF is_active(m.w, h)
               THEN lk_exit(lk_release(lk_commit(m1, h),
                                       lock_id(m.w, h)),
                            RTuple(m.fr.retv))
               ELSE lk_exit(lk_release(m1, lock_id(m.w, h)), RNone)
       [] pc = "L202" ->
            LET m1 == lk_read(lk_acquire(m, lock_id(m.w, cur)), cur)
                m2 == IF is_active(m.w, cur)
                      THEN lk_commit_deliver(m1, cur, FalseV) ELSE m1
            IN lk_reject_putters(
                 [lk_release(m2, lock_id(m.w, cur)) EXCEPT !.fr.j = @ + 1])
       [] pc = "L211" ->
            LET m1 == lk_read(lk_acquire(m, lock_id(m.w, cur)), cur)
                m2 == IF is_active(m.w, cur)
                      THEN lk_commit_deliver(
                             [m1 EXCEPT !.w.ch = buf_get_rest(m.w.ch)],
                             cur, buf_get_val(m.w.ch))
                      ELSE m1
            IN lk_distribute_buf_vals(lk_release(m2, lock_id(m.w, cur)))
       [] pc = "L234" ->
            LET m1 == lk_read(lk_acquire(m, lock_id(m.w, cur)), cur)
                m2 == IF is_active(m.w, cur)
                      THEN lk_commit_deliver(m1, cur, NoneV) ELSE m1
            IN lk_close_takers(
                 [lk_release(m2, lock_id(m.w, cur)) EXCEPT !.fr.j = @ + 1])
       [] pc \in {"L130a", "L172a"} ->
            [lk_acquire(m, LkLower(m.w, h, cur))
               EXCEPT !.fr.pc = IF pc = "L130a" THEN "L130b" ELSE "L172b"]
       [] pc \in {"L130b", "L172b"} ->
            LET m1 == lk_read(lk_acquire(m, LkHigher(m.w, h, cur)), h)
                m2 == IF is_active(m.w, h) THEN lk_read(m1, cur) ELSE m1
                both == is_active(m.w, h) /\ is_active(m.w, cur)
                m3 == IF ~both THEN m2
                      ELSE lk_commit_deliver(
                             lk_commit(m2, h), cur,
                             IF pc = "L130b" THEN m.fr.val ELSE TrueV)
                m4 == lk_release(lk_release(m3, lock_id(m.w, h)),
                                 lock_id(m.w, cur))
            IN IF both
               THEN lk_exit(m4, RTuple(IF pc = "L130b" THEN TrueV ELSE m.fr.cval))
               ELSE IF pc = "L130b" THEN lk_put_scan(m4) ELSE lk_get_scan(m4)

\* Thread t takes the lock it waits for and runs on to its next acquisition.
LkStep(t) ==
  \E m \in {lk_after(LkMachine(t))} :
     /\ Store(thr[t].c, m.w)
     /\ rcv' = [rcv EXCEPT ![thr[t].c] = m.w.rcv]
     /\ ret' = m.ret
     /\ thr' = [thr EXCEPT ![t] = m.fr]
     /\ ev' = m.ev
     /\ UNCHANGED <<hd, nextH, alts, last>>

\* "with self._lock" of put, get and close.
LkLockChannel(t) ==
  /\ LkWanted(World(thr[t].c), thr[t]).kind = "ch"
  /\ LkFree(LkWanted(World(thr[t].c), thr[t]))
  /\ LkStep(t)

\* "with handler:" and the acquisitions of acquire_handlers.
LkLockHandler(t) ==
  /\ LkWanted(World(thr[t].c), thr[t]).kind = "fl"
  /\ LkFree(LkWanted(World(thr[t].c), thr[t]))
  /\ LkStep(t)

\* Channel 1 is chan(1, xf.take(2)), channel 2 is chan().
InitLk ==
  /\ chans = [c \in LkChans |-> IF c = 1 THEN NewChan("fixed", 1, "take")
                                ELSE NewChan("none", 0, "identity")]
  /\ rcv = [c \in LkChans |-> <<>>]
  /\ hd = [h \in LkHandlerIds |->
             LET t == (h - 1) \div LkOpsPerThread + 1
                 o == LkPrograms[t].ops[h - LkOpsPerThread * (t - 1)]
             IN NewHandler(o.kind, o.ch, PutVal(h),
                           IF LkPrograms[t].alt THEN LkAltFlag(t) ELSE h,
                           TRUE, IF LkPrograms[t].alt THEN t ELSE 0)]
  /\ act = [f \in LkFlagIds |-> TRUE]
  /\ cmt = [h \in LkHandlerIds |-> 0]
  /\ dlv = [h \in LkHandlerIds |-> <<>>]
  /\ ret = [h \in LkHandlerIds |-> RUnset]
  /\ nextH = 1
  /\ alts = <<>>
  /\ last = InitLast
  /\ thr = [t \in LkThreads |-> LkFrame(t, 1)]
  /\ ev = {}

NextLk ==
  \/ \E t \in LkThreads : LkLockChannel(t)
  \/ \E t \in LkThreads : LkLockHandler(t)

SpecLk == InitLk /\ [][NextLk]_vars

\* The thread that holds lock l (0: none).
LkHolder(l) ==
  IF \E t \in DOMAIN thr : LkHolds(t, l)
  THEN CHOOSE t \in DOMAIN thr : LkHolds(t, l)
  ELSE 0

\* The thread that holds the lock thread t waits for (0: t is not blocked).
LkBlockedBy(t) == LkHolder(LkWanted(World(thr[t].c), thr[t]))

\* The thread reached from t by following "is blocked by" n times.
RECURSIVE LkChain(_, _)
LkChain(t, n) == IF n = 0 \/ t = 0 THEN t ELSE LkChain(LkBlockedBy(t), n - 1)

\* Threads waiting cyclically for each other's locks.
LkCycle == \E t \in DOMAIN thr, n \in 1..Len(thr) : LkChain(t, n) = t

\* Every thread takes handler locks in ascending lock_id order: the handler
\* lock it waits for is above every handler lock it holds.
LkAscending ==
  \A t \in DOMAIN thr :
    LET l == LkWanted(World(thr[t].c), thr[t])
    IN l.kind = "fl" =>
         \A a \in DOMAIN thr[t].locks : thr[t].locks[a] < l.id

\* C35: in no interleaving of concurrent puts, gets, closes and alts do
\* threads wait cyclically for handler and channel locks.
C35_NoLockCycle == ~LkCycle

\* C36: whenever the delivery callback of a committed parked handler is
\* invoked, the caller holds the channel's lock and no longer holds that
\* handler's lock.
C36_CallbackAfterRelease ==
  \A e \in ev : e.kind = "callback" => e.chlocked /\ ~e.hlocked

\* C37: whenever channel code reads a handler's is_active, it holds that
\* handler's lock.
C37_ReadsUnderLock ==
  \A e \in ev : e.kind = "read" => e.hlocked

\* C38: a channel built with comp(cat, take(n)) is closed once take has let
\* n values through: cat passes on take's Reduced.
C38_CatBubblesReduced ==
  \A c \in ChanIds :
    chans[c].xform \in {"take", "cat_take"} /\ chans[c].remaining <= 0
      => chans[c].is_closed

\* C39: take's step is never called again after it has returned Reduced,
\* whatever transducer feeds it: its count of remaining values, which
\* reaches 0 with the call that returns Reduced, never goes below 0.
C39_NoInputAfterReduced ==
  \A c \in ChanIds :
    chans[c].xform \in {"take", "interpose_take"} => chans[c].remaining >= 0

\* The handler's call has returned.
Returned(h) == hd[h].op \in {"put", "get"} /\ ret[h] # RUnset

\* h was committed at most once and its callback called at most once, by a
\* commit.
CommittedOnce(h) ==
  /\ cmt[h] <= 1
  /\ Len(dlv[h]) <= cmt[h]

\* C40: a handler presented to put or get is committed at most once and gets
\* at most one result: its call returned a tuple, the handler is committed
\* and its callback is never called, or its call returned None and its
\* callback is called at most once, when it is committed later.
C40_OneResult ==
  \A h \in DOMAIN hd :
    Returned(h) =>
      /\ CommittedOnce(h)
      /\ \/ ret[h].tag = "tuple" /\ cmt[h] = 1 /\ dlv[h] = <<>>
         \/ ret[h] = RNone /\ Len(dlv[h]) = cmt[h]

====
